---- MODULE Spec2Model ----
(***************************************************************************)
(* Model of the HPX resource partitioner                                   *)
(* (libs/core/resource_partitioner/src/detail_partitioner.cpp).            *)
(*                                                                         *)
(* A processing-unit mask (threads::mask_type) is the set of its set bits. *)
(* A std::size_t value is an integer standing for itself modulo 2^64, so   *)
(* -1 is static_cast<std::size_t>(-1).                                     *)
(* Errors are named by kind: "InvalidStatus" is hpx::error::invalid_status *)
(* (throw_runtime_error), "BadParameter" is hpx::error::bad_parameter and  *)
(* std::invalid_argument, "Runtime" is std::runtime_error and              *)
(* "CommandLineError" is hpx::detail::command_line_error.                  *)
(***************************************************************************)
EXTENDS Integers, Sequences, FiniteSets, TLC

\* ------------------------------------------------------------------ bounds
\* number of processing units of the machine (threads::hardware_concurrency)
NumPUs == 2
\* number of partitioner objects the lifecycle model constructs and destroys
MaxInstances == 4

\* ------------------------------------------------------- program constants
\* width of std::size_t
SizeTBits == 64
\* static_cast<std::size_t>(-1): first_core_ and pus_needed_ while unset
Unset == -1
\* initial value of partitioner::instance_number_counter_
InstanceCounterInit == -1
\* topology::get_number_of_core_pus: processing units per core
PusPerCore == 1
\* the bound partitioner::partitioner tests the instance counter against
MaxLiveCounter == 1

VARIABLES
    instance_number_counter_,  \* static std::atomic<int>
    alive,                     \* the partitioner objects currently alive
    mode_,                     \* partitioner_mode flags
    os_threads,                \* rtcfg_ entry hpx.os_threads
    numa_domains_,             \* topology mirror: exposed PU ids, in order
    thread_occupancy_count_,   \* pu::thread_occupancy_count_, by PU id
    initial_thread_pools_,     \* the pool vector
    num_threads_overall,       \* static init_pool_data::num_threads_overall
    first_core_,
    affinity_pu_nums,          \* affinity_data_: PU number by worker id
    affinity_masks,            \* affinity_data_: mask by worker id
    is_initialized_,
    phase,                     \* "constructed" until partitioner::init
                               \* has run, "ready" from then on
    configured,                \* the last call was a configure_pools that
                               \* returned
    hpx_debug,                 \* the build evaluates HPX_ASSERT
    mtx_,                      \* the partitioner mutex: its owner, or Free
    call,                      \* the shrink_pool or expand_pool call in
                               \* progress on the thread "caller"
    assert_failed,             \* the function whose HPX_ASSERT has ended the
                               \* process, or "none"
    last_pu_call,              \* the last assign_pu or unassign_pu call of
                               \* the thread "worker"
    topo,                      \* the machine threads::topology describes
    mirror,                    \* numa_domains_ with its domains and cores
    ops,                       \* the public operation each thread is in
    handed                     \* callbacks a virtual core was handed to
                               \* since it was assigned

vars == <<instance_number_counter_, alive, mode_, os_threads,
          numa_domains_, thread_occupancy_count_, initial_thread_pools_,
          num_threads_overall, first_core_, affinity_pu_nums, affinity_masks,
          is_initialized_, phase, configured, hpx_debug, mtx_, call,
          assert_failed, last_pu_call, topo, mirror, ops, handed>>

ext_vars == <<topo, mirror, ops, handed>>

dyn_vars == <<hpx_debug, mtx_, call, assert_failed, last_pu_call, ext_vars>>

life_vars == <<instance_number_counter_, alive>>

part_vars == <<mode_, os_threads, numa_domains_, thread_occupancy_count_,
               initial_thread_pools_, num_threads_overall, first_core_,
               affinity_pu_nums, affinity_masks, is_initialized_, phase,
               configured>>

\* ----------------------------------------------------------------- helpers
HardwareConcurrency == NumPUs

PUs == 0 .. (HardwareConcurrency - 1)

Copies(x, n) == [i \in 1 .. n |-> x]

RECURSIVE SumSeq(_)
SumSeq(s) == IF s = <<>> THEN 0 ELSE Head(s) + SumSeq(Tail(s))

RECURSIVE Pow2Mod(_, _)
Pow2Mod(k, m) == IF k = 0 THEN 1 % m ELSE (2 * Pow2Mod(k - 1, m)) % m

\* a std::size_t value v (an integer standing for v mod 2^SizeTBits) reduced
\* modulo m, as the unsigned operator % computes it
SizeTMod(v, m) == IF v >= 0 THEN v % m ELSE (Pow2Mod(SizeTBits, m) + v) % m

\* threads::set on an empty mask of hardware_concurrency bits
OneHot(pu_index) == {pu_index}

\* threads::any
MaskAny(mask) == mask # {}

\* ------------------------------------------------------------ init_pool_data
\* init_pool_data::init_pool_data (the empty-name check is made by the
\* callers before they construct)
InitPoolData(name, sched) ==
    [pool_name_         |-> name,
     scheduling_policy_ |-> sched,
     num_threads_       |-> 0,
     assigned_pus_      |-> <<>>,
     assigned_pu_nums_  |-> <<>>]

\* The state the binding operations work on.
PartState ==
    [pools   |-> initial_thread_pools_,
     occ     |-> thread_occupancy_count_,
     overall |-> num_threads_overall]

Outcome(st, err) == [st |-> st, err |-> err]

\* init_pool_data::add_resource on the pool at index idx (1-based)
InitPoolDataAddResource(st, idx, pu_index, exclusive, num_threads) ==
    IF pu_index >= HardwareConcurrency
    THEN Outcome(st, "BadParameter")
    ELSE LET d == st.pools[idx]
             nd == [d EXCEPT
                      !.num_threads_ = @ + num_threads,
                      !.assigned_pus_ =
                          @ \o Copies(OneHot(pu_index), num_threads),
                      !.assigned_pu_nums_ =
                          @ \o Copies(<<pu_index, exclusive, FALSE>>,
                                      num_threads)]
         IN Outcome([st EXCEPT !.pools[idx] = nd,
                               !.overall = @ + num_threads], "none")

\* the PU number assign_first_core stores for pu_num on a machine of hc
\* processing units: (pu_num + first_core) % hardware_concurrency in
\* std::size_t, first_core being the offset assign_cores computed
ShiftPuNum(pu_num, first_core, hc) == SizeTMod(pu_num + first_core, hc)

\* assign_first_core without threads::reset: the old bit stays in the mask
InitPoolDataAssignFirstCoreNoReset(d, offset) ==
    LET Shift(i) == SizeTMod(d.assigned_pu_nums_[i][1] + offset,
                             HardwareConcurrency)
    IN [d EXCEPT
          !.assigned_pu_nums_ =
              [i \in DOMAIN d.assigned_pu_nums_ |->
                  <<Shift(i), d.assigned_pu_nums_[i][2],
                    d.assigned_pu_nums_[i][3]>>],
          !.assigned_pus_ =
              [i \in DOMAIN d.assigned_pus_ |->
                  d.assigned_pus_[i] \cup OneHot(Shift(i))]]

\* init_pool_data::assign_first_core
InitPoolDataAssignFirstCore(d, offset) ==
    LET Shift(i) == ShiftPuNum(d.assigned_pu_nums_[i][1], offset,
                               HardwareConcurrency)
    IN [d EXCEPT
          !.assigned_pu_nums_ =
              [i \in DOMAIN d.assigned_pu_nums_ |->
                  IF i <= d.num_threads_
                  THEN <<Shift(i), d.assigned_pu_nums_[i][2],
                         d.assigned_pu_nums_[i][3]>>
                  ELSE d.assigned_pu_nums_[i]],
          !.assigned_pus_ =
              [i \in DOMAIN d.assigned_pus_ |->
                  IF i <= d.num_threads_
                  THEN OneHot(Shift(i))
                  ELSE d.assigned_pus_[i]]]

\* ---------------------------------------------------------------- partitioner
AllowDynamicPools == "allow_dynamic_pools" \in mode_

AllowOversubscription == "allow_oversubscription" \in mode_

\* partitioner::get_default_pool_name
GetDefaultPoolName == "default"

\* get_pool_data that falls back to the default pool for an unknown name
FindPoolOrDefault(pools, pool_name) ==
    LET hits == {i \in DOMAIN pools : pools[i].pool_name_ = pool_name}
    IN IF hits = {} THEN 1
       ELSE CHOOSE i \in hits : \A j \in hits : i <= j

\* std::find_if over the pool vector by name: the 1-based position of the
\* first pool so named, 0 when there is none (get_pool_data then throws)
FindPool(pools, pool_name) ==
    LET hits == {i \in DOMAIN pools : pools[i].pool_name_ = pool_name}
    IN IF hits = {} THEN 0
       ELSE CHOOSE i \in hits : \A j \in hits : i <= j

\* pu::thread_occupancy_count_ of the PU object handed in; an object that is
\* not part of the mirror carries a count of its own, which starts at 0
OccupancyCount(st, pu) == IF pu \in DOMAIN st.occ THEN st.occ[pu] ELSE 0

\* get_pool_data(l, pool_name).add_resource(...); ++p.thread_occupancy_count_
BindPU(st, pu, pool_name, exclusive, num_threads) ==
    LET idx == FindPool(st.pools, pool_name)
    IN IF idx = 0 THEN Outcome(st, "BadParameter")
       ELSE LET r == InitPoolDataAddResource(st, idx, pu, exclusive,
                                             num_threads)
            IN IF r.err # "none" THEN r
               ELSE Outcome([r.st EXCEPT !.occ[pu] = @ + 1], "none")

\* add_resource without the test of the PU's occupancy count
AddResourceNoOccupancyCheck(st, pu, pool_name, exclusive, num_threads) ==
    IF ~exclusive /\ ~AllowDynamicPools
    THEN Outcome(st, "BadParameter")
    ELSE IF AllowOversubscription
    THEN BindPU(st, pu, pool_name, exclusive, num_threads)
    ELSE LET r == BindPU(st, pu, pool_name, exclusive, num_threads)
         IN IF r.err # "none" THEN r
            ELSE IF r.st.overall > os_threads
            THEN Outcome(r.st, "Runtime")
            ELSE r

\* partitioner::add_resource(pu const&, pool_name, exclusive, num_threads)
AddResource(st, pu, pool_name, exclusive, num_threads) ==
    IF ~exclusive /\ ~AllowDynamicPools
    THEN Outcome(st, "BadParameter")
    ELSE IF AllowOversubscription
    THEN BindPU(st, pu, pool_name, exclusive, num_threads)
    ELSE IF OccupancyCount(st, pu) = 0
    THEN LET r == BindPU(st, pu, pool_name, exclusive, num_threads)
         IN IF r.err # "none" THEN r
            ELSE IF r.st.overall > os_threads
            THEN Outcome(r.st, "Runtime")
            ELSE r
    ELSE Outcome(st, "Runtime")

\* create_thread_pool without the scan for an existing name
CreateThreadPoolNoScan(pools, pool_name, sched) ==
    IF pool_name = ""
    THEN [pools |-> pools, err |-> "BadParameter"]
    ELSE IF pool_name = GetDefaultPoolName
    THEN [pools |-> [pools EXCEPT
                       ![1] = InitPoolData(GetDefaultPoolName, sched)],
          err |-> "none"]
    ELSE [pools |-> Append(pools, InitPoolData(pool_name, sched)),
          err |-> "none"]

\* create_thread_pool that appends the new default pool instead of assigning
\* it to index 0
CreateThreadPoolAppendsDefault(pools, pool_name, sched) ==
    IF pool_name = ""
    THEN [pools |-> pools, err |-> "BadParameter"]
    ELSE IF \E i \in 2 .. Len(pools) : pools[i].pool_name_ = pool_name
    THEN [pools |-> pools, err |-> "BadParameter"]
    ELSE [pools |-> Append(pools, InitPoolData(pool_name, sched)),
          err |-> "none"]

\* partitioner::create_thread_pool(pool_name, sched, mode, func)
CreateThreadPool(pools, pool_name, sched) ==
    IF pool_name = ""
    THEN [pools |-> pools, err |-> "BadParameter"]
    ELSE IF pool_name = GetDefaultPoolName
    THEN [pools |-> [pools EXCEPT
                       ![1] = InitPoolData(GetDefaultPoolName, sched)],
          err |-> "none"]
    ELSE IF \E i \in 2 .. Len(pools) : pools[i].pool_name_ = pool_name
    THEN [pools |-> pools, err |-> "BadParameter"]
    ELSE [pools |-> Append(pools, InitPoolData(pool_name, sched)),
          err |-> "none"]

\* partitioner::create_thread_pool(pool_name, scheduler_creation, func)
CreateThreadPoolUserDefined(pools, pool_name) ==
    CreateThreadPool(pools, pool_name, "user_defined")

\* partitioner::get_pool_index: 0-based, -1 standing for the BadParameter throw
GetPoolIndex(pools, pool_name) ==
    IF pool_name = "default" THEN 0
    ELSE LET hits == {i \in DOMAIN pools : pools[i].pool_name_ = pool_name}
         IN IF hits = {} THEN -1
            ELSE (CHOOSE i \in hits : \A j \in hits : i <= j) - 1

\* partitioner::get_num_threads(): the sum over the pools
GetNumThreads(pools) ==
    SumSeq([i \in DOMAIN pools |-> pools[i].num_threads_])

\* partitioner::reconfigure_affinities_locked: the new affinity tables
RECURSIVE ConcatPuNums(_)
ConcatPuNums(pools) ==
    IF pools = <<>> THEN <<>>
    ELSE [i \in DOMAIN Head(pools).assigned_pu_nums_ |->
             Head(pools).assigned_pu_nums_[i][1]]
         \o ConcatPuNums(Tail(pools))

RECURSIVE ConcatMasks(_)
ConcatMasks(pools) ==
    IF pools = <<>> THEN <<>>
    ELSE Head(pools).assigned_pus_ \o ConcatMasks(Tail(pools))

\* reconfigure_affinities_locked walking the pool vector from its end
ReconfigureAffinitiesReversed(pools) ==
    LET rev == [i \in DOMAIN pools |-> pools[Len(pools) + 1 - i]]
    IN [pu_nums |-> ConcatPuNums(rev), masks |-> ConcatMasks(rev)]

ReconfigureAffinitiesLocked(pools) ==
    [pu_nums |-> ConcatPuNums(pools), masks |-> ConcatMasks(pools)]

\* partitioner::assign_cores: the offset applied to every pool (0: no shift)
AssignCoresOffset(cached, first_core) ==
    LET offset == IF cached # Unset THEN first_core - cached ELSE first_core
    IN IF offset # 0 THEN offset * PusPerCore ELSE 0

AssignCoresPools(pools, cached, first_core) ==
    LET offset == AssignCoresOffset(cached, first_core)
    IN IF offset # 0
       THEN [i \in DOMAIN pools |->
                InitPoolDataAssignFirstCore(pools[i], offset)]
       ELSE pools

\* what assign_cores reads and writes: the pools, the cached first core and
\* the affinity data
AffinityState ==
    [pools |-> initial_thread_pools_, first_core |-> first_core_,
     pu_nums |-> affinity_pu_nums, masks |-> affinity_masks]

\* assign_cores that does not store the first core it was called with
AssignCoresForgetful(st, first_core) ==
    IF st.first_core # first_core
    THEN LET pools == AssignCoresPools(st.pools, st.first_core, first_core)
             a == ReconfigureAffinitiesLocked(pools)
         IN [pools |-> pools, first_core |-> st.first_core,
             pu_nums |-> a.pu_nums, masks |-> a.masks]
    ELSE st

\* partitioner::assign_cores(first_core)
AssignCores(st, first_core) ==
    IF st.first_core # first_core
    THEN LET pools == AssignCoresPools(st.pools, st.first_core, first_core)
             a == ReconfigureAffinitiesLocked(pools)
         IN [pools |-> pools, first_core |-> first_core,
             pu_nums |-> a.pu_nums, masks |-> a.masks]
    ELSE st

\* check_empty_pools without the test for a pool that has no mask at all
CheckEmptyPoolsMasksOnly(pools) ==
    \E i \in DOMAIN pools :
        \E k \in DOMAIN pools[i].assigned_pus_ :
            ~MaskAny(pools[i].assigned_pus_[k])

\* partitioner::check_empty_pools
CheckEmptyPools(pools) ==
    \E i \in DOMAIN pools :
        \/ pools[i].assigned_pus_ = <<>>
        \/ \E k \in DOMAIN pools[i].assigned_pus_ :
               ~MaskAny(pools[i].assigned_pus_[k])

\* the loop of setup_pools that binds every PU after the first as the mode
\* has it, the first one too
RECURSIVE SetupPoolsLoopNoFirst(_, _, _)
SetupPoolsLoopNoFirst(st, pus, first) ==
    IF pus = <<>> THEN Outcome(st, "none")
    ELSE IF OccupancyCount(st, Head(pus)) # 0
    THEN SetupPoolsLoopNoFirst(st, Tail(pus), first)
    ELSE LET r == AddResource(st, Head(pus), GetDefaultPoolName,
                              ~AllowDynamicPools, 1)
         IN IF r.err # "none" THEN r
            ELSE SetupPoolsLoopNoFirst(r.st, Tail(pus), FALSE)

\* partitioner::setup_pools, the loop over the mirror: pus is what is left of
\* the iteration, first the loop's flag. The loop ends at the first throw.
RECURSIVE SetupPoolsLoop(_, _, _)
SetupPoolsLoop(st, pus, first) ==
    IF pus = <<>> THEN Outcome(st, "none")
    ELSE IF OccupancyCount(st, Head(pus)) # 0
    THEN SetupPoolsLoop(st, Tail(pus), first)
    ELSE LET r == AddResource(st, Head(pus), GetDefaultPoolName,
                              first \/ ~AllowDynamicPools, 1)
         IN IF r.err # "none" THEN r
            ELSE SetupPoolsLoop(r.st, Tail(pus), FALSE)

\* the statement of setup_pools that throws, "none" when it returns
SetupPoolsThrowsAt(st) ==
    LET r == SetupPoolsLoop(st, numa_domains_, TRUE)
    IN IF r.err # "none" THEN "add_resource"
       ELSE IF FindPool(r.st.pools, GetDefaultPoolName) = 0
       THEN "get_pool_data"
       ELSE IF r.st.pools[FindPool(r.st.pools, GetDefaultPoolName)]
                   .num_threads_ = 0
       THEN "default_pool"
       ELSE IF CheckEmptyPools(r.st.pools)
       THEN "check_empty_pools"
       ELSE "none"

\* setup_pools without the call of check_empty_pools
SetupPoolsNoEmptyCheck(st) ==
    LET r == SetupPoolsLoop(st, numa_domains_, TRUE)
    IN IF r.err # "none" THEN r
       ELSE IF FindPool(r.st.pools, GetDefaultPoolName) = 0
       THEN Outcome(r.st, "BadParameter")
       ELSE IF r.st.pools[FindPool(r.st.pools, GetDefaultPoolName)]
                   .num_threads_ = 0
       THEN Outcome(r.st, "InvalidStatus")
       ELSE r

\* partitioner::setup_pools
SetupPools(st) ==
    LET r == SetupPoolsLoop(st, numa_domains_, TRUE)
    IN IF r.err # "none" THEN r
       ELSE IF FindPool(r.st.pools, GetDefaultPoolName) = 0
       THEN Outcome(r.st, "BadParameter")
       ELSE IF r.st.pools[FindPool(r.st.pools, GetDefaultPoolName)]
                   .num_threads_ = 0
       THEN Outcome(r.st, "InvalidStatus")
       ELSE IF CheckEmptyPools(r.st.pools)
       THEN Outcome(r.st, "InvalidStatus")
       ELSE r

\* ---------------------------------------------------------- scheduler names
\* A string is the sequence of its characters.
S_local == <<"l", "o", "c", "a", "l">>
S_priority == <<"-", "p", "r", "i", "o", "r", "i", "t", "y">>
S_fifo == <<"-", "f", "i", "f", "o">>
S_lifo == <<"-", "l", "i", "f", "o">>
S_workrequesting ==
    <<"-", "w", "o", "r", "k", "r", "e", "q", "u", "e", "s", "t", "i", "n", "g">>
S_static == <<"s", "t", "a", "t", "i", "c">>
S_abp == <<"a", "b", "p">>
S_shared == <<"s", "h", "a", "r", "e", "d">>
S_banana == <<"b", "a", "n", "a", "n", "a">>

\* the scan of setup_schedulers, in its order: name and policy
SchedulerScan ==
    << <<S_local, "local">>,
       <<S_local \o S_priority \o S_fifo, "local_priority_fifo">>,
       <<S_local \o S_priority \o S_lifo, "local_priority_lifo">>,
       <<S_local \o S_workrequesting \o S_fifo, "local_workrequesting_fifo">>,
       <<S_local \o S_workrequesting \o S_lifo, "local_workrequesting_lifo">>,
       <<S_local \o S_workrequesting \o <<"-", "m", "c">>,
         "local_workrequesting_mc">>,
       <<S_static, "static_">>,
       <<S_static \o S_priority, "static_priority">>,
       <<S_abp \o S_priority \o S_fifo, "abp_priority_fifo">>,
       <<S_abp \o S_priority \o S_lifo, "abp_priority_lifo">>,
       <<S_shared \o S_priority, "shared_priority">> >>

\* a comparison of the whole strings in the place of find
FindAtZeroWhole(known, str) == known = str

\* 0 == std::string(known).find(str)
FindAtZero(known, str) ==
    /\ Len(str) <= Len(known)
    /\ SubSeq(known, 1, Len(str)) = str

\* the policy setup_schedulers selects for the string, "" when it throws
RECURSIVE ResolveFrom(_, _)
ResolveFrom(scan, str) ==
    IF scan = <<>> THEN ""
    ELSE IF FindAtZero(Head(scan)[1], str) THEN Head(scan)[2]
    ELSE ResolveFrom(Tail(scan), str)

ResolveScheduler(str) == ResolveFrom(SchedulerScan, str)

\* setup_schedulers that gives the default to every pool
SetupSchedulersEveryPool(pools, str) ==
    LET default_scheduler == ResolveScheduler(str)
    IN IF default_scheduler = ""
       THEN [pools |-> pools, err |-> "CommandLineError"]
       ELSE [pools |->
                [i \in DOMAIN pools |->
                    [pools[i] EXCEPT !.scheduling_policy_ = default_scheduler]],
             err |-> "none"]

\* setup_schedulers that gives the default to the default pool only
SetupSchedulersDefaultPoolOnly(pools, str) ==
    LET default_scheduler == ResolveScheduler(str)
    IN IF default_scheduler = ""
       THEN [pools |-> pools, err |-> "CommandLineError"]
       ELSE [pools |->
                [i \in DOMAIN pools |->
                    IF /\ pools[i].scheduling_policy_ = "unspecified"
                       /\ pools[i].pool_name_ = GetDefaultPoolName
                    THEN [pools[i] EXCEPT
                            !.scheduling_policy_ = default_scheduler]
                    ELSE pools[i]],
             err |-> "none"]

\* partitioner::setup_schedulers
SetupSchedulers(pools, str) ==
    LET default_scheduler == ResolveScheduler(str)
    IN IF default_scheduler = ""
       THEN [pools |-> pools, err |-> "CommandLineError"]
       ELSE [pools |->
                [i \in DOMAIN pools |->
                    IF pools[i].scheduling_policy_ = "unspecified"
                    THEN [pools[i] EXCEPT
                            !.scheduling_policy_ = default_scheduler]
                    ELSE pools[i]],
             err |-> "none"]

\* partitioner::fill_topology_vectors, flattened: the exposed PUs in the order
\* the walk (domain, core, PU) meets them, which is by increasing global id
RECURSIVE FillTopologyVectors(_, _)
FillTopologyVectors(pid, exposed) ==
    IF pid = HardwareConcurrency THEN <<>>
    ELSE (IF pid \in exposed THEN <<pid>> ELSE <<>>)
         \o FillTopologyVectors(pid + 1, exposed)

\* ------------------------------------------------------------------ inputs
\* the names pools are created under, and a name no pool ever carries
PoolNames == {"default", "io"}

NoSuchPool == "bg"

PartitionerModes ==
    SUBSET {"allow_dynamic_pools", "allow_oversubscription"}

\* the PU objects a caller can hand in: those of the mirror, and one made up
\* by the caller whose id is past the last PU of the machine
PuInputs == {numa_domains_[k] : k \in DOMAIN numa_domains_}
                \cup {HardwareConcurrency}

\* the policies handed to the first overload of create_thread_pool (the second
\* overload makes the pool user_defined)
SchedulerInputs == {"unspecified"}

SchedulerStrings == {S_static, S_banana}

FirstCoreInputs == 0 .. 1

\* the model stops binding once this many threads were requested
MaxThreadsOverall == HardwareConcurrency

\* the exposures the model starts from: the first n PUs of the machine
Exposures == {0 .. (n - 1) : n \in 1 .. HardwareConcurrency}

\* --------------------------------------------- run-time state, when unused
Free == "free"

\* no shrink_pool or expand_pool call is in progress
NoCall ==
    [pc |-> "idle", op |-> "none", pool_name |-> "", data |-> <<>>,
     entries |-> <<>>, pu_nums |-> <<>>, next |-> 1, log |-> <<>>,
     result |-> 0, err |-> "none"]

NoPuCall ==
    [op |-> "none", pool_name |-> "", virt_core |-> 0, locked |-> FALSE,
     after_assign |-> FALSE]

\* The run-time operations are not called while the partitioner is set up.
NoTopology == [numa |-> <<>>, exposed |-> {}]

NoMirror == [filled |-> FALSE, numa_domains_ |-> <<>>]

\* The topology walk and the operations of several threads are followed in
\* specifications of their own.
ExtIdle ==
    /\ topo = NoTopology
    /\ mirror = NoMirror
    /\ ops = <<>>
    /\ handed = <<>>

DynIdle ==
    /\ ExtIdle
    /\ hpx_debug = FALSE
    /\ mtx_ = Free
    /\ call = NoCall
    /\ assert_failed = "none"
    /\ last_pu_call = NoPuCall

\* -------------------------------------------------------------------- Init
\* The state after partitioner::partitioner has returned.
Init ==
    /\ instance_number_counter_ = InstanceCounterInit + 1
    /\ alive = {1}
    /\ mode_ = {}
    /\ os_threads = 0
    /\ numa_domains_ = <<>>
    /\ thread_occupancy_count_ = [p \in PUs |-> 0]
    /\ initial_thread_pools_ = <<InitPoolData("default", "unspecified")>>
    /\ num_threads_overall = 0
    /\ first_core_ = Unset
    /\ affinity_pu_nums = <<>>
    /\ affinity_masks = <<>>
    /\ is_initialized_ = FALSE
    /\ phase = "constructed"
    /\ configured = FALSE
    /\ DynIdle

\* partitioner::init: mode, configuration and affinity data are stored, the
\* mirror is filled and assign_cores(0) is called. The affinity data pin each
\* of the hpx.os_threads workers to a PU of its own: these are the exposed PUs.
PartitionerInit(rpmode, exposed) ==
    /\ phase = "constructed"
    /\ mode_' = rpmode
    /\ os_threads' = Cardinality(exposed)
    /\ numa_domains_' = FillTopologyVectors(0, exposed)
    /\ initial_thread_pools_' =
           AssignCoresPools(initial_thread_pools_, first_core_, 0)
    /\ first_core_' = 0
    /\ LET a == ReconfigureAffinitiesLocked(initial_thread_pools_')
       IN /\ affinity_pu_nums' = a.pu_nums
          /\ affinity_masks' = a.masks
    /\ phase' = "ready"
    /\ UNCHANGED <<thread_occupancy_count_, num_threads_overall,
                   is_initialized_>>
    /\ configured' = FALSE
    /\ UNCHANGED life_vars
    /\ UNCHANGED dyn_vars

\* a call of create_thread_pool(pool_name, sched)
CreateThreadPoolCall(pool_name, sched) ==
    /\ phase = "ready"
    /\ initial_thread_pools_' =
           CreateThreadPool(initial_thread_pools_, pool_name, sched).pools
    /\ UNCHANGED <<mode_, os_threads, numa_domains_, thread_occupancy_count_,
                   num_threads_overall, first_core_, affinity_pu_nums,
                   affinity_masks, is_initialized_, phase>>
    /\ configured' = FALSE
    /\ UNCHANGED life_vars
    /\ UNCHANGED dyn_vars

\* a call of create_thread_pool(pool_name, scheduler_creation): the model
\* calls this overload for the default pool, where it differs from the first
\* in the policy it leaves
CreateThreadPoolUserDefinedCall(pool_name) ==
    /\ phase = "ready"
    /\ initial_thread_pools_' =
           CreateThreadPoolUserDefined(initial_thread_pools_, pool_name).pools
    /\ UNCHANGED <<mode_, os_threads, numa_domains_, thread_occupancy_count_,
                   num_threads_overall, first_core_, affinity_pu_nums,
                   affinity_masks, is_initialized_, phase>>
    /\ configured' = FALSE
    /\ UNCHANGED life_vars
    /\ UNCHANGED dyn_vars

\* a call of add_resource(pu, pool_name, exclusive, num_threads)
AddResourceCall(pu, pool_name, exclusive, num_threads) ==
    /\ phase = "ready"
    /\ num_threads_overall + num_threads <= MaxThreadsOverall
    /\ \E r \in {AddResource(PartState, pu, pool_name, exclusive,
                           num_threads)} :
          /\ initial_thread_pools_' = r.st.pools
          /\ thread_occupancy_count_' = r.st.occ
          /\ num_threads_overall' = r.st.overall
    /\ UNCHANGED <<mode_, os_threads, numa_domains_, first_core_,
                   affinity_pu_nums, affinity_masks, is_initialized_, phase>>
    /\ configured' = FALSE
    /\ UNCHANGED life_vars
    /\ UNCHANGED dyn_vars

\* a call of assign_cores(first_core)
AssignCoresCall(first_core) ==
    /\ phase = "ready"
    /\ \E r \in {AssignCores(AffinityState, first_core)} :
          /\ initial_thread_pools_' = r.pools
          /\ first_core_' = r.first_core
          /\ affinity_pu_nums' = r.pu_nums
          /\ affinity_masks' = r.masks
    /\ UNCHANGED <<mode_, os_threads, numa_domains_, thread_occupancy_count_,
                   num_threads_overall, is_initialized_, phase>>
    /\ configured' = FALSE
    /\ UNCHANGED life_vars
    /\ UNCHANGED dyn_vars

\* configure_pools returns (no step of it throws) when called with str
ConfigurePoolsReturns(str) ==
    /\ SetupPools(PartState).err = "none"
    /\ SetupSchedulers(SetupPools(PartState).st.pools, str).err = "none"

\* configure_pools that goes on after setup_schedulers has thrown
PhasesCompletedPoolsOnly(r1, r2) == r1.err = "none"

\* configure_pools reaches reconfigure_affinities and is_initialized_ = true:
\* neither setup_pools (r1) nor setup_schedulers (r2) has thrown
PhasesCompleted(r1, r2) == r1.err = "none" /\ r2.err = "none"

\* a call of configure_pools, hpx.scheduler holding str: setup_pools,
\* setup_schedulers, reconfigure_affinities, then is_initialized_ = true; a
\* step that throws ends the call and leaves what was done before it
ConfigurePools(str) ==
    /\ phase = "ready"
    /\ \E r1 \in {SetupPools(PartState)} :
       \E r2 \in {SetupSchedulers(r1.st.pools, str)} :
       \E returns \in {PhasesCompleted(r1, r2)} :
          /\ thread_occupancy_count_' = r1.st.occ
          /\ num_threads_overall' = r1.st.overall
          /\ initial_thread_pools_' =
                 IF r1.err # "none" THEN r1.st.pools ELSE r2.pools
          /\ IF returns
             THEN \E a \in {ReconfigureAffinitiesLocked(r2.pools)} :
                      /\ affinity_pu_nums' = a.pu_nums
                      /\ affinity_masks' = a.masks
                      /\ is_initialized_' = TRUE
             ELSE UNCHANGED <<affinity_pu_nums, affinity_masks,
                              is_initialized_>>
          /\ configured' = returns
    /\ UNCHANGED <<mode_, os_threads, numa_domains_, first_core_, phase>>
    /\ UNCHANGED life_vars
    /\ UNCHANGED dyn_vars

Next ==
    \/ \E rpmode \in PartitionerModes, exposed \in Exposures :
           PartitionerInit(rpmode, exposed)
    \/ \E pool_name \in PoolNames \cup {""}, sched \in SchedulerInputs :
           CreateThreadPoolCall(pool_name, sched)
    \/ \E pool_name \in {GetDefaultPoolName} :
           CreateThreadPoolUserDefinedCall(pool_name)
    \/ \E pu \in PuInputs, pool_name \in PoolNames \cup {NoSuchPool},
          exclusive \in BOOLEAN,
          num_threads \in 1 .. 2 :
           AddResourceCall(pu, pool_name, exclusive, num_threads)
    \/ \E first_core \in FirstCoreInputs : AssignCoresCall(first_core)
    \/ \E str \in SchedulerStrings : ConfigurePools(str)

Spec == Init /\ [][Next]_vars

\* partitioner::get_pu_num
GetPuNum(global_thread_num) ==
    IF is_initialized_ THEN affinity_pu_nums[global_thread_num + 1]
    ELSE global_thread_num

\* ---------------------------------------------------------------- lifecycle
\* partitioner::partitioner, the instance counter: the counter after the
\* attempt and the attempt's outcome
PartitionerConstruct(counter) ==
    [counter |-> counter + 1,
     err     |-> IF counter + 1 > MaxLiveCounter THEN "InvalidStatus"
                 ELSE "none"]

\* partitioner::~partitioner, the instance counter
PartitionerDestroy(counter) == counter - 1

\* The process before any partitioner was constructed. The lifecycle model
\* follows the two process-wide statics only.
InitLife ==
    /\ instance_number_counter_ = InstanceCounterInit
    /\ alive = {}
    /\ mode_ = {}
    /\ os_threads = 0
    /\ numa_domains_ = <<>>
    /\ thread_occupancy_count_ = [p \in PUs |-> 0]
    /\ initial_thread_pools_ = <<>>
    /\ num_threads_overall = 0
    /\ first_core_ = Unset
    /\ affinity_pu_nums = <<>>
    /\ affinity_masks = <<>>
    /\ is_initialized_ = FALSE
    /\ phase = "constructed"
    /\ configured = FALSE
    /\ DynIdle

\* an attempt to construct the partitioner object i
Construct(i) ==
    /\ i \notin alive
    /\ instance_number_counter_ <= MaxInstances
    /\ LET r == PartitionerConstruct(instance_number_counter_)
       IN /\ instance_number_counter_' = r.counter
          /\ alive' = IF r.err = "none" THEN alive \cup {i} ELSE alive
    /\ UNCHANGED <<mode_, os_threads, numa_domains_, thread_occupancy_count_,
                   initial_thread_pools_, num_threads_overall, first_core_,
                   affinity_pu_nums, affinity_masks, is_initialized_, phase,
                   configured>>
    /\ UNCHANGED dyn_vars

\* the destruction of the live partitioner object i
Destroy(i) ==
    /\ i \in alive
    /\ instance_number_counter_' = PartitionerDestroy(instance_number_counter_)
    /\ num_threads_overall' = 0
    /\ alive' = alive \ {i}
    /\ UNCHANGED <<mode_, os_threads, numa_domains_, thread_occupancy_count_,
                   initial_thread_pools_, first_core_, affinity_pu_nums,
                   affinity_masks, is_initialized_, phase, configured>>
    /\ UNCHANGED dyn_vars

\* a live object binds one more thread: init_pool_data::add_resource adds to
\* the static num_threads_overall
LifeAddThread ==
    /\ alive # {}
    /\ num_threads_overall < MaxThreadsOverall
    /\ num_threads_overall' = num_threads_overall + 1
    /\ UNCHANGED <<instance_number_counter_, alive, mode_, os_threads,
                   numa_domains_, thread_occupancy_count_,
                   initial_thread_pools_, first_core_, affinity_pu_nums,
                   affinity_masks, is_initialized_, phase, configured>>
    /\ UNCHANGED dyn_vars

NextLife ==
    \/ \E i \in 1 .. MaxInstances : Construct(i)
    \/ \E i \in 1 .. MaxInstances : Destroy(i)
    \/ LifeAddThread

SpecLife == InitLife /\ [][NextLife]_vars

\* ------------------------------------------------- dynamic pool operations
\* The pools are resized at run time by two threads: "caller" runs shrink_pool
\* and expand_pool, and may call assign_pu and unassign_pu from the callback it
\* handed in; "worker" calls assign_pu and unassign_pu on its own. A virtual
\* core is counted from 0, as in the code; a failed HPX_ASSERT ends the
\* process, and a build that does not evaluate HPX_ASSERT goes on.
Threads == {"caller", "worker"}

\* the entry of virtual core virt_core
PuEntry(d, virt_core) == d.assigned_pu_nums_[virt_core + 1]

\* the assertions of init_pool_data::assign_pu
AssignPuAsserts(d, virt_core) ==
    /\ virt_core <= Len(d.assigned_pu_nums_)
    /\ ~PuEntry(d, virt_core)[3]

\* init_pool_data::assign_pu
InitPoolDataAssignPu(d, virt_core) ==
    [d EXCEPT !.assigned_pu_nums_[virt_core + 1][3] = TRUE]

\* the assertions of init_pool_data::unassign_pu
UnassignPuAsserts(d, virt_core) ==
    /\ virt_core <= Len(d.assigned_pu_nums_)
    /\ PuEntry(d, virt_core)[3]

\* init_pool_data::unassign_pu that clears the flag of every entry of the pool
InitPoolDataUnassignPuAll(d, virt_core) ==
    [d EXCEPT !.assigned_pu_nums_ =
                  [k \in DOMAIN @ |-> <<@[k][1], @[k][2], FALSE>>]]

\* init_pool_data::unassign_pu that also takes the thread out of the pool's
\* thread count
InitPoolDataUnassignPuShrinks(d, virt_core) ==
    [d EXCEPT !.assigned_pu_nums_[virt_core + 1][3] = FALSE,
              !.num_threads_ = @ - 1]

\* init_pool_data::unassign_pu
InitPoolDataUnassignPu(d, virt_core) ==
    [d EXCEPT !.assigned_pu_nums_[virt_core + 1][3] = FALSE]

\* the assertions of init_pool_data::pu_is_exclusive
PuIsExclusiveAsserts(d, virt_core) ==
    /\ virt_core <= Len(d.assigned_pu_nums_)
    /\ PuEntry(d, virt_core)[3]

\* init_pool_data::pu_is_exclusive
PuIsExclusiveNever(d, virt_core) == FALSE

PuIsExclusive(d, virt_core) == PuEntry(d, virt_core)[2]

\* the assertions of init_pool_data::pu_is_assigned
PuIsAssignedAsserts(d, virt_core) ==
    /\ virt_core <= Len(d.assigned_pu_nums_)
    /\ PuEntry(d, virt_core)[3]

\* init_pool_data::pu_is_assigned
PuIsAssigned(d, virt_core) == PuEntry(d, virt_core)[3]

\* what the scan of shrink_pool or expand_pool has found so far; entries
\* holds the virtual cores at which the loop pushed a value, pu_nums the
\* values it pushed
ScanStart ==
    [has_non_exclusive_pus |-> FALSE, entries |-> <<>>, pu_nums |-> <<>>,
     assert_failed |-> "none"]

\* the loop of shrink_pool over the virtual cores i, i + 1, ... of the pool d
RECURSIVE ShrinkPoolScan(_, _, _)
ShrinkPoolScan(d, i, acc) ==
    IF i = d.num_threads_ THEN acc
    ELSE IF hpx_debug /\ ~PuIsExclusiveAsserts(d, i)
    THEN [acc EXCEPT !.assert_failed = "pu_is_exclusive"]
    ELSE IF PuIsExclusive(d, i) THEN ShrinkPoolScan(d, i + 1, acc)
    ELSE IF hpx_debug /\ ~PuIsAssignedAsserts(d, i)
    THEN [acc EXCEPT !.has_non_exclusive_pus = TRUE,
                     !.assert_failed = "pu_is_assigned"]
    ELSE ShrinkPoolScan(d, i + 1,
             [acc EXCEPT
                !.has_non_exclusive_pus = TRUE,
                !.entries = IF PuIsAssigned(d, i) THEN Append(@, i) ELSE @,
                !.pu_nums = IF PuIsAssigned(d, i) THEN Append(@, i) ELSE @])

\* the loop of expand_pool over the virtual cores i, i + 1, ... of the pool d
RECURSIVE ExpandPoolScan(_, _, _)
ExpandPoolScan(d, i, acc) ==
    IF i = d.num_threads_ THEN acc
    ELSE IF hpx_debug /\ ~PuIsExclusiveAsserts(d, i)
    THEN [acc EXCEPT !.assert_failed = "pu_is_exclusive"]
    ELSE IF PuIsExclusive(d, i) THEN ExpandPoolScan(d, i + 1, acc)
    ELSE IF hpx_debug /\ ~PuIsAssignedAsserts(d, i)
    THEN [acc EXCEPT !.has_non_exclusive_pus = TRUE,
                     !.assert_failed = "pu_is_assigned"]
    ELSE ExpandPoolScan(d, i + 1,
             [acc EXCEPT
                !.has_non_exclusive_pus = TRUE,
                !.entries = IF ~PuIsAssigned(d, i) THEN Append(@, i) ELSE @,
                !.pu_nums = IF ~PuIsAssigned(d, i) THEN Append(@, i) ELSE @])

\* the scope of the unique_lock of shrink_pool and expand_pool never ends
ScopeExitKeepsLock(owner) == owner

\* the mutex after the block that declares the unique_lock is left
ScopeExit(owner) == Free

\* no HPX_ASSERT has ended the process
Running == phase = "ready" /\ assert_failed = "none"

\* shrink_pool or expand_pool is entered: the test of allow_dynamic_pools
ResizeEnters(op, pool_name) ==
    /\ Running
    /\ call.pc \in {"idle", "done"}
    /\ call' = IF ~AllowDynamicPools
               THEN [NoCall EXCEPT !.pc = "done", !.op = op,
                                   !.pool_name = pool_name,
                                   !.err = "BadParameter"]
               ELSE [NoCall EXCEPT !.pc = "lock", !.op = op,
                                   !.pool_name = pool_name]
    /\ configured' = FALSE
    /\ UNCHANGED <<mode_, os_threads, numa_domains_, thread_occupancy_count_,
                   initial_thread_pools_, num_threads_overall, first_core_,
                   affinity_pu_nums, affinity_masks, is_initialized_, phase>>
    /\ UNCHANGED <<hpx_debug, mtx_, assert_failed, last_pu_call>>
    /\ UNCHANGED life_vars
    /\ UNCHANGED ext_vars

\* a call of shrink_pool(pool_name, remove_pu)
ShrinkPoolCall(pool_name) == ResizeEnters("shrink_pool", pool_name)

\* a call of expand_pool(pool_name, add_pu)
ExpandPoolCall(pool_name) == ResizeEnters("expand_pool", pool_name)

\* std::unique_lock<mutex_type> l(mtx_): the caller waits for the mutex
ResizeLocks ==
    /\ Running
    /\ call.pc = "lock"
    /\ mtx_ = Free
    /\ mtx_' = "caller"
    /\ call' = [call EXCEPT !.pc = "scan"]
    /\ UNCHANGED part_vars
    /\ UNCHANGED <<hpx_debug, assert_failed, last_pu_call>>
    /\ UNCHANGED life_vars
    /\ UNCHANGED ext_vars

\* the locked block of shrink_pool or expand_pool, whose loop gave r, and the
\* test of has_non_exclusive_pus that follows it
ResizeScans(r) ==
    /\ assert_failed' = r.assert_failed
    /\ IF r.assert_failed # "none"
       THEN UNCHANGED <<mtx_, call>>
       ELSE /\ mtx_' = ScopeExit(mtx_)
            /\ call' = [call EXCEPT
                          !.pc = IF r.has_non_exclusive_pus
                                 THEN "callbacks" ELSE "done",
                          !.err = IF r.has_non_exclusive_pus
                                  THEN "none" ELSE "BadParameter",
                          !.data = initial_thread_pools_[
                                       FindPool(initial_thread_pools_,
                                                call.pool_name)]
                                       .assigned_pu_nums_,
                          !.entries = r.entries,
                          !.pu_nums = r.pu_nums]

\* get_pool_data has not found the pool: it unlocks and throws
ResizeUnknownPool ==
    /\ mtx_' = Free
    /\ call' = [call EXCEPT !.pc = "done", !.err = "BadParameter"]
    /\ UNCHANGED assert_failed

\* shrink_pool, from get_pool_data to the test of has_non_exclusive_pus
ShrinkPoolScans ==
    /\ Running
    /\ call.pc = "scan"
    /\ call.op = "shrink_pool"
    /\ LET idx == FindPool(initial_thread_pools_, call.pool_name)
       IN IF idx = 0 THEN ResizeUnknownPool
          ELSE ResizeScans(ShrinkPoolScan(initial_thread_pools_[idx], 0,
                                          ScanStart))
    /\ UNCHANGED part_vars
    /\ UNCHANGED <<hpx_debug, last_pu_call>>
    /\ UNCHANGED life_vars
    /\ UNCHANGED ext_vars

\* expand_pool, from get_pool_data to the test of has_non_exclusive_pus
ExpandPoolScans ==
    /\ Running
    /\ call.pc = "scan"
    /\ call.op = "expand_pool"
    /\ LET idx == FindPool(initial_thread_pools_, call.pool_name)
       IN IF idx = 0 THEN ResizeUnknownPool
          ELSE ResizeScans(ExpandPoolScan(initial_thread_pools_[idx], 0,
                                          ScanStart))
    /\ UNCHANGED part_vars
    /\ UNCHANGED <<hpx_debug, last_pu_call>>
    /\ UNCHANGED life_vars
    /\ UNCHANGED ext_vars

\* remove_pu(pu_num) or add_pu(pu_num) is entered for the next collected value
CallbackEnters ==
    /\ Running
    /\ call.pc = "callbacks"
    /\ call.next <= Len(call.pu_nums)
    /\ call' = [call EXCEPT !.pc = "in_callback",
                            !.log = Append(@, call.pu_nums[call.next])]
    /\ UNCHANGED part_vars
    /\ UNCHANGED <<hpx_debug, mtx_, assert_failed, last_pu_call>>
    /\ UNCHANGED life_vars
    /\ UNCHANGED ext_vars

\* the callback returns
CallbackReturns ==
    /\ Running
    /\ call.pc = "in_callback"
    /\ call' = [call EXCEPT !.pc = "callbacks", !.next = @ + 1]
    /\ UNCHANGED part_vars
    /\ UNCHANGED <<hpx_debug, mtx_, assert_failed, last_pu_call>>
    /\ UNCHANGED life_vars
    /\ UNCHANGED ext_vars

\* return pu_nums_to_remove.size() or pu_nums_to_add.size()
ResizeReturns ==
    /\ Running
    /\ call.pc = "callbacks"
    /\ call.next > Len(call.pu_nums)
    /\ call' = [call EXCEPT !.pc = "done", !.result = Len(call.pu_nums)]
    /\ UNCHANGED part_vars
    /\ UNCHANGED <<hpx_debug, mtx_, assert_failed, last_pu_call>>
    /\ UNCHANGED life_vars
    /\ UNCHANGED ext_vars

\* the thread t is where it can call assign_pu or unassign_pu: the worker
\* anywhere, the caller inside a callback
CanCall(t) == t = "worker" \/ call.pc = "in_callback"

\* the virtual core virt_core of the pool pool_name exists
IsVirtCore(pool_name, virt_core) ==
    /\ FindPool(initial_thread_pools_, pool_name) # 0
    /\ virt_core < initial_thread_pools_[
                       FindPool(initial_thread_pools_, pool_name)]
                       .num_threads_

\* partitioner::assign_pu called by thread t: it waits for the mutex, and the
\* step is the call from the lock to the unlock
AssignPuCall(t, pool_name, virt_core) ==
    /\ Running
    /\ CanCall(t)
    /\ IsVirtCore(pool_name, virt_core)
    /\ mtx_ = Free
    /\ LET d == initial_thread_pools_[
                    FindPool(initial_thread_pools_, pool_name)]
       IN IF hpx_debug /\ ~AssignPuAsserts(d, virt_core)
          THEN /\ assert_failed' = "assign_pu"
               /\ UNCHANGED initial_thread_pools_
          ELSE /\ initial_thread_pools_' =
                      [initial_thread_pools_ EXCEPT
                         ![FindPool(initial_thread_pools_, pool_name)] =
                             InitPoolDataAssignPu(@, virt_core)]
               /\ UNCHANGED assert_failed
    /\ last_pu_call' =
           IF t = "worker"
           THEN [op |-> "assign_pu", pool_name |-> pool_name,
                 virt_core |-> virt_core, locked |-> TRUE,
                 after_assign |-> FALSE]
           ELSE last_pu_call
    /\ configured' = FALSE
    /\ UNCHANGED <<mode_, os_threads, numa_domains_, thread_occupancy_count_,
                   num_threads_overall, first_core_, affinity_pu_nums,
                   affinity_masks, is_initialized_, phase>>
    /\ UNCHANGED <<hpx_debug, mtx_, call>>
    /\ UNCHANGED life_vars
    /\ UNCHANGED ext_vars

\* unassign_pu that waits for the mutex as assign_pu does
UnassignPuCallBlocking(t, pool_name, virt_core) ==
    /\ Running
    /\ CanCall(t)
    /\ IsVirtCore(pool_name, virt_core)
    /\ mtx_ = Free
    /\ initial_thread_pools_' =
           [initial_thread_pools_ EXCEPT
              ![FindPool(initial_thread_pools_, pool_name)] =
                  InitPoolDataUnassignPu(@, virt_core)]
    /\ configured' = FALSE
    /\ UNCHANGED <<mode_, os_threads, numa_domains_, thread_occupancy_count_,
                   num_threads_overall, first_core_, affinity_pu_nums,
                   affinity_masks, is_initialized_, phase>>
    /\ UNCHANGED dyn_vars
    /\ UNCHANGED life_vars

\* partitioner::unassign_pu called by thread t: try_lock, and nothing at all
\* when the mutex is taken
UnassignPuCall(t, pool_name, virt_core) ==
    /\ Running
    /\ CanCall(t)
    /\ IsVirtCore(pool_name, virt_core)
    /\ LET d == initial_thread_pools_[
                    FindPool(initial_thread_pools_, pool_name)]
       IN IF mtx_ # Free
          THEN UNCHANGED <<initial_thread_pools_, assert_failed>>
          ELSE IF hpx_debug /\ ~UnassignPuAsserts(d, virt_core)
          THEN /\ assert_failed' = "unassign_pu"
               /\ UNCHANGED initial_thread_pools_
          ELSE /\ initial_thread_pools_' =
                      [initial_thread_pools_ EXCEPT
                         ![FindPool(initial_thread_pools_, pool_name)] =
                             InitPoolDataUnassignPu(@, virt_core)]
               /\ UNCHANGED assert_failed
    /\ last_pu_call' =
           IF t = "worker"
           THEN [op |-> "unassign_pu", pool_name |-> pool_name,
                 virt_core |-> virt_core, locked |-> mtx_ = Free,
                 after_assign |->
                     /\ last_pu_call.op = "assign_pu"
                     /\ last_pu_call.pool_name = pool_name
                     /\ last_pu_call.virt_core = virt_core]
           ELSE last_pu_call
    /\ configured' = FALSE
    /\ UNCHANGED <<mode_, os_threads, numa_domains_, thread_occupancy_count_,
                   num_threads_overall, first_core_, affinity_pu_nums,
                   affinity_masks, is_initialized_, phase>>
    /\ UNCHANGED <<hpx_debug, mtx_, call>>
    /\ UNCHANGED life_vars
    /\ UNCHANGED ext_vars

\* the virtual cores the calls name
VirtCores == 0 .. (HardwareConcurrency - 1)

\* what the caller of the partitioner has done before configure_pools: it has
\* or has not created the pool "io", and has bound at most one PU itself
UserBindings ==
    {<<>>} \cup
    {<<[pu |-> pu, pool_name |-> pool_name, exclusive |-> exclusive]>> :
         pu \in PUs, pool_name \in PoolNames, exclusive \in BOOLEAN}

\* the user's pools and bindings, as create_thread_pool and add_resource
\* leave them
RECURSIVE AddResources(_, _)
AddResources(st, binds) ==
    IF binds = <<>> THEN Outcome(st, "none")
    ELSE LET r == AddResource(st, Head(binds).pu, Head(binds).pool_name,
                              Head(binds).exclusive, 1)
         IN IF r.err # "none" THEN r ELSE AddResources(r.st, Tail(binds))

UserSetup(create_io, binds) ==
    LET first == <<InitPoolData(GetDefaultPoolName, "unspecified")>>
        pools == IF create_io
                 THEN CreateThreadPool(first, "io", "unspecified").pools
                 ELSE first
    IN AddResources([pools |-> pools, occ |-> [p \in PUs |-> 0],
                     overall |-> 0], binds)

\* The state configure_pools has returned into, for a machine whose PUs are
\* all exposed: the pools are set up and no PU is assigned yet.
InitDyn ==
    /\ instance_number_counter_ = InstanceCounterInit + 1
    /\ alive = {1}
    /\ mode_ \in PartitionerModes
    /\ os_threads = HardwareConcurrency
    /\ numa_domains_ = FillTopologyVectors(0, PUs)
    /\ first_core_ = 0
    /\ \E create_io \in BOOLEAN, binds \in UserBindings :
       \E u \in {UserSetup(create_io, binds)} :
       \E r1 \in {SetupPools(u.st)} :
       \E r2 \in {SetupSchedulers(r1.st.pools, S_static)} :
       \E a \in {ReconfigureAffinitiesLocked(r2.pools)} :
          /\ u.err = "none"
          /\ r1.err = "none"
          /\ r2.err = "none"
          /\ thread_occupancy_count_ = r1.st.occ
          /\ num_threads_overall = r1.st.overall
          /\ initial_thread_pools_ = r2.pools
          /\ affinity_pu_nums = a.pu_nums
          /\ affinity_masks = a.masks
    /\ is_initialized_ = TRUE
    /\ phase = "ready"
    /\ configured = TRUE
    /\ hpx_debug \in BOOLEAN
    /\ mtx_ = Free
    /\ call = NoCall
    /\ assert_failed = "none"
    /\ last_pu_call = NoPuCall
    /\ ExtIdle

NextDyn ==
    \/ \E pool_name \in PoolNames \cup {NoSuchPool} :
           ShrinkPoolCall(pool_name)
    \/ \E pool_name \in PoolNames \cup {NoSuchPool} :
           ExpandPoolCall(pool_name)
    \/ ResizeLocks
    \/ ShrinkPoolScans
    \/ ExpandPoolScans
    \/ CallbackEnters
    \/ CallbackReturns
    \/ ResizeReturns
    \/ \E t \in Threads, pool_name \in PoolNames, virt_core \in VirtCores :
           AssignPuCall(t, pool_name, virt_core)
    \/ \E t \in Threads, pool_name \in PoolNames, virt_core \in VirtCores :
           UnassignPuCall(t, pool_name, virt_core)

SpecDyn == InitDyn /\ [][NextDyn]_vars

\* ------------------------------------------- assign_cores after configuring
\* the first cores assign_cores is called with once the pools are configured
CoreInputs == 0 .. HardwareConcurrency

\* the machine sizes (numbers of processing units) the arithmetic of
\* assign_first_core is looked at for
MaxMachine == 3
MachineSizes == 1 .. MaxMachine

NextCores == \E first_core \in CoreInputs : AssignCoresCall(first_core)

SpecCores == InitDyn /\ [][NextCores]_vars

\* ------------------------------------------- configuration of the schedulers
\* the scan of a build without HPX_HAVE_WORK_REQUESTING_SCHEDULERS
SchedulerScanNoWorkRequesting ==
    SubSeq(SchedulerScan, 1, 3) \o SubSeq(SchedulerScan, 7, Len(SchedulerScan))

SchedulerScanBuilds == {SchedulerScan, SchedulerScanNoWorkRequesting}

\* The entry hpx.scheduler of the configuration: no string (the key is
\* absent) or one string. rtcfg_.get_entry(key, dflt) hands out the string,
\* and dflt when there is none.
GetEntry(entry, dflt) == IF entry = <<>> THEN dflt ELSE entry[1]

\* setup_schedulers' lookup: get_entry("hpx.scheduler", std::string())
DefaultSchedulerStr(entry) == GetEntry(entry, <<>>)

\* what runtime_configuration pre-fills the entry with
PreInitializeIniScheduler == <<S_local \o S_priority \o S_fifo>>

\* partitioner::set_scheduler
SetScheduler(pools, sched, pool_name) ==
    IF FindPool(pools, pool_name) = 0
    THEN [pools |-> pools, err |-> "BadParameter"]
    ELSE [pools |-> [pools EXCEPT ![FindPool(pools, pool_name)]
                                       .scheduling_policy_ = sched],
          err |-> "none"]

\* partitioner::which_scheduler
WhichScheduler(pools, pool_name) ==
    IF FindPool(pools, pool_name) = 0
    THEN [policy |-> "", err |-> "BadParameter"]
    ELSE IF pools[FindPool(pools, pool_name)].scheduling_policy_
                = "unspecified"
    THEN [policy |-> "", err |-> "BadParameter"]
    ELSE [policy |-> pools[FindPool(pools, pool_name)].scheduling_policy_,
          err |-> "none"]

\* the pools of the configuration runs: a second user pool next to "io"
ConfPoolNames == PoolNames \cup {"mpi"}

PolicyInputs == {"unspecified", "static_priority"}

S_local_p == S_local \o <<"-", "p">>

\* the states of the entry hpx.scheduler at the lookup
HpxSchedulerEntries ==
    {<<>>, <<<<>>>>, PreInitializeIniScheduler, <<S_local_p>>, <<S_banana>>}

\* a call of set_scheduler(sched, pool_name)
SetSchedulerCall(sched, pool_name) ==
    /\ phase = "ready"
    /\ initial_thread_pools_' =
           SetScheduler(initial_thread_pools_, sched, pool_name).pools
    /\ UNCHANGED <<mode_, os_threads, numa_domains_, thread_occupancy_count_,
                   num_threads_overall, first_core_, affinity_pu_nums,
                   affinity_masks, is_initialized_, phase>>
    /\ configured' = FALSE
    /\ UNCHANGED life_vars
    /\ UNCHANGED dyn_vars

\* a call of configure_pools, the configuration holding entry
ConfigurePoolsLookup(entry) == ConfigurePools(DefaultSchedulerStr(entry))

NextConf ==
    \/ \E rpmode \in SUBSET {"allow_dynamic_pools"} :
           PartitionerInit(rpmode, PUs)
    \/ \E pool_name \in ConfPoolNames, sched \in PolicyInputs :
           CreateThreadPoolCall(pool_name, sched)
    \/ \E pu \in PuInputs \ {HardwareConcurrency},
          pool_name \in ConfPoolNames, num_threads \in 1 .. 2 :
           AddResourceCall(pu, pool_name, TRUE, num_threads)
    \/ \E sched \in PolicyInputs, pool_name \in ConfPoolNames :
           SetSchedulerCall(sched, pool_name)
    \/ \E entry \in HpxSchedulerEntries : ConfigurePoolsLookup(entry)

SpecConf == Init /\ [][NextConf]_vars

\* ------------------------------------------------------------------- claims
PoolIndices == DOMAIN initial_thread_pools_

\* C1: at most one partitioner object is alive at any time.
C1_AtMostOneInstance == Cardinality(alive) <= 1

\* C2: whenever no partitioner object is alive, the next construction
\* succeeds, whatever constructions (accepted or rejected) and destructions
\* came before.
C2_NextConstructionSucceeds ==
    alive = {} => PartitionerConstruct(instance_number_counter_).err = "none"

\* C3: the static counter threads_overall equals the sum of num_threads over
\* all pools in every reachable state.
C3_OverallIsSum == num_threads_overall = GetNumThreads(initial_thread_pools_)

\* C4: without allow_oversubscription, threads_overall never exceeds
\* hpx.os_threads, also in the state left by an add_resource that has thrown.
C4_OverallWithinBudget ==
    (phase = "ready" /\ ~AllowOversubscription)
        => num_threads_overall <= os_threads

\* C5: in the state a configure_pools call returns into without
\* allow_oversubscription, the sum of num_threads over all pools equals
\* hpx.os_threads (the condition get_num_threads asserts).
C5_SumEqualsBudget ==
    (configured /\ ~AllowOversubscription)
        => GetNumThreads(initial_thread_pools_) = os_threads

\* C6: in every reachable state, every pool has as many masks and as many
\* PU tuples as it has threads, and the i-th mask has exactly one bit set,
\* the one of the i-th tuple's PU id.
C6_PoolVectorsConsistent ==
    \A p \in PoolIndices :
        LET d == initial_thread_pools_[p]
        IN /\ Len(d.assigned_pus_) = d.num_threads_
           /\ Len(d.assigned_pu_nums_) = d.num_threads_
           /\ \A i \in 1 .. d.num_threads_ :
                  /\ Cardinality(d.assigned_pus_[i]) = 1
                  /\ d.assigned_pu_nums_[i][1] \in d.assigned_pus_[i]

\* C6 witness: two pools hold threads, one of them two, and assign_cores has
\* shifted them.
C6_Witness ==
    /\ Len(initial_thread_pools_) = 2
    /\ initial_thread_pools_[1].num_threads_ >= 1
    /\ initial_thread_pools_[2].num_threads_ = 2
    /\ first_core_ = 1

\* C7: in the state a configure_pools call returns into, the default pool
\* has at least one thread and no other pool has no thread or a mask without
\* a bit.
C7_NoEmptyPoolAfterConfigure ==
    configured =>
        /\ initial_thread_pools_[1].num_threads_ >= 1
        /\ \A p \in PoolIndices \ {1} :
               /\ initial_thread_pools_[p].num_threads_ # 0
               /\ \A i \in DOMAIN initial_thread_pools_[p].assigned_pus_ :
                      initial_thread_pools_[p].assigned_pus_[i] # {}

\* C7 witness: configure_pools has just returned with a user pool declared.
C7_Witness ==
    /\ configured
    /\ Len(initial_thread_pools_) = 2
    /\ initial_thread_pools_[2].num_threads_ >= 1

\* the worker id (0-based) of the first thread of pool p
FirstWorker(p) ==
    SumSeq([q \in 1 .. (p - 1) |-> initial_thread_pools_[q].num_threads_])

\* C8: in the state a configure_pools call returns into, worker ids are
\* pool-major: the j-th thread of pool p is worker FirstWorker(p) + j, whose
\* PU number and mask in the affinity map are those of that pool entry.
C8_WorkersPoolMajor ==
    configured =>
        /\ Len(affinity_pu_nums) = GetNumThreads(initial_thread_pools_)
        /\ Len(affinity_masks) = GetNumThreads(initial_thread_pools_)
        /\ \A p \in PoolIndices :
               \A j \in 1 .. initial_thread_pools_[p].num_threads_ :
                   /\ GetPuNum(FirstWorker(p) + j - 1) =
                          initial_thread_pools_[p].assigned_pu_nums_[j][1]
                   /\ affinity_masks[FirstWorker(p) + j] =
                          initial_thread_pools_[p].assigned_pus_[j]

\* C8 witness: configure_pools has just returned with pool io on PU 0 and
\* default on PU 1, so that worker 0 runs on PU 1 and worker 1 on PU 0.
C8_Witness ==
    /\ configured
    /\ Len(initial_thread_pools_) = 2
    /\ initial_thread_pools_[2].pool_name_ = "io"
    /\ initial_thread_pools_[2].assigned_pu_nums_ = << <<0, TRUE, FALSE>> >>
    /\ initial_thread_pools_[1].assigned_pu_nums_ = << <<1, TRUE, FALSE>> >>
    /\ GetPuNum(0) = 1
    /\ GetPuNum(1) = 0

\* C9: in every reachable state pool names are pairwise distinct, index 0 is
\* the default pool, get_pool_index finds every pool at its own index and
\* "default" at 0, and create_thread_pool with the name of an existing
\* non-default pool throws BadParameter and leaves the pool vector as it is.
C9_PoolNamesUnique ==
    /\ \A p, q \in PoolIndices :
           initial_thread_pools_[p].pool_name_ =
               initial_thread_pools_[q].pool_name_ => p = q
    /\ initial_thread_pools_[1].pool_name_ = "default"
    /\ GetPoolIndex(initial_thread_pools_, "default") = 0
    /\ \A p \in PoolIndices :
           GetPoolIndex(initial_thread_pools_,
                        initial_thread_pools_[p].pool_name_) = p - 1
    /\ \A p \in PoolIndices \ {1} :
           /\ \A sched \in SchedulerInputs :
                  CreateThreadPool(initial_thread_pools_,
                                   initial_thread_pools_[p].pool_name_, sched)
                      = [pools |-> initial_thread_pools_,
                         err |-> "BadParameter"]
           /\ CreateThreadPoolUserDefined(initial_thread_pools_,
                                          initial_thread_pools_[p].pool_name_)
                  = [pools |-> initial_thread_pools_, err |-> "BadParameter"]

\* C9 witness: a user pool io exists and holds a thread, so that creating io
\* again is the rejected case.
C9_Witness ==
    /\ Len(initial_thread_pools_) = 2
    /\ initial_thread_pools_[2].pool_name_ = "io"
    /\ initial_thread_pools_[2].num_threads_ >= 1

\* what create_thread_pool with the name "default" and the policy sched
\* leaves in r, called in the current state
DefaultReplacedInPlace(r, sched) ==
    /\ r.err = "none"
    /\ Len(r.pools) = Len(initial_thread_pools_)
    /\ \A p \in PoolIndices \ {1} : r.pools[p] = initial_thread_pools_[p]
    /\ r.pools[1].pool_name_ = "default"
    /\ r.pools[1].scheduling_policy_ = sched

\* C10: in every reachable state, create_thread_pool with the name "default"
\* (either overload) keeps the number of pools, leaves every pool at index
\* >= 1 as it was, and leaves at index 0 a pool named "default" with the
\* policy that was supplied.
C10_DefaultReplacedInPlace ==
    /\ \A sched \in SchedulerInputs \cup {"local", "static_priority"} :
           DefaultReplacedInPlace(
               CreateThreadPool(initial_thread_pools_, "default", sched),
               sched)
    /\ DefaultReplacedInPlace(
           CreateThreadPoolUserDefined(initial_thread_pools_, "default"),
           "user_defined")

\* C10 witness: the default pool was replaced by a user_defined one after it
\* had been given a thread, while pool io keeps its own thread.
C10_Witness ==
    /\ Len(initial_thread_pools_) = 2
    /\ initial_thread_pools_[1].scheduling_policy_ = "user_defined"
    /\ initial_thread_pools_[1].num_threads_ = 0
    /\ initial_thread_pools_[2].num_threads_ = 1
    /\ num_threads_overall = 2

\* the arguments add_resource is called with in the claims below
AddResourceNames == PoolNames \cup {NoSuchPool}

AddResourceCounts == 1 .. 2

\* C11 as stated: without allow_oversubscription, add_resource on a PU whose
\* occupancy count is above 0 throws Runtime and changes nothing, whatever
\* its other arguments.
C11_OccupiedPuRuntime ==
    (phase = "ready" /\ ~AllowOversubscription) =>
        \A pu \in PuInputs :
            OccupancyCount(PartState, pu) > 0 =>
                \A pool_name \in AddResourceNames, exclusive \in BOOLEAN,
                   num_threads \in AddResourceCounts :
                    AddResource(PartState, pu, pool_name, exclusive,
                                num_threads) = Outcome(PartState, "Runtime")

\* C11 amended: without allow_oversubscription, add_resource on a PU whose
\* occupancy count is above 0 changes nothing; it throws Runtime when the
\* call is exclusive or allow_dynamic_pools is set, and BadParameter when it
\* is non-exclusive without allow_dynamic_pools.
C11_OccupiedPuRejected ==
    (phase = "ready" /\ ~AllowOversubscription) =>
        \A pu \in PuInputs :
            OccupancyCount(PartState, pu) > 0 =>
                \A pool_name \in AddResourceNames, exclusive \in BOOLEAN,
                   num_threads \in AddResourceCounts :
                    AddResource(PartState, pu, pool_name, exclusive,
                                num_threads) =
                        Outcome(PartState,
                                IF exclusive \/ AllowDynamicPools
                                THEN "Runtime" ELSE "BadParameter")

\* C11 witness: hpx.os_threads = 2, PU 0 and PU 1 were bound to the default
\* pool by the caller, and configure_pools has not run: binding PU 0 again is
\* the third call.
C11_Witness ==
    /\ ~AllowOversubscription
    /\ ~is_initialized_
    /\ os_threads = 2
    /\ Len(initial_thread_pools_) = 1
    /\ initial_thread_pools_[1].assigned_pu_nums_ =
           << <<0, TRUE, FALSE>>, <<1, TRUE, FALSE>> >>
    /\ thread_occupancy_count_[0] = 1
    /\ thread_occupancy_count_[1] = 1

\* C12: an add_resource call that throws Runtime leaves the pools,
\* threads_overall and the occupancy counts as they were before the call.
C12_FailedAddResourceChangesNothing ==
    phase = "ready" =>
        \A pu \in PuInputs, pool_name \in AddResourceNames,
           exclusive \in BOOLEAN, num_threads \in AddResourceCounts :
            LET r == AddResource(PartState, pu, pool_name, exclusive,
                                 num_threads)
            IN r.err = "Runtime" => r.st = PartState

\* C13 as stated: an exclusive add_resource naming a pool that does not exist
\* throws BadParameter and changes nothing, in every state and for every PU.
C13_UnknownPoolBadParameter ==
    phase = "ready" =>
        \A pu \in PuInputs, num_threads \in AddResourceCounts :
            AddResource(PartState, pu, NoSuchPool, TRUE, num_threads) =
                Outcome(PartState, "BadParameter")

\* C13 amended: an exclusive add_resource naming a pool that does not exist
\* changes nothing; it throws BadParameter when allow_oversubscription is set
\* or the PU's occupancy count is 0, and Runtime when allow_oversubscription
\* is not set and the PU's occupancy count is above 0.
C13_UnknownPoolRejected ==
    phase = "ready" =>
        \A pu \in PuInputs, num_threads \in AddResourceCounts :
            AddResource(PartState, pu, NoSuchPool, TRUE, num_threads) =
                Outcome(PartState,
                        IF AllowOversubscription
                               \/ OccupancyCount(PartState, pu) = 0
                        THEN "BadParameter" ELSE "Runtime")

\* C13 witness: allow_oversubscription is set and a PU of the mirror is
\* already occupied, so that the call reaches the pool lookup on an occupied
\* PU.
C13_Witness ==
    /\ phase = "ready"
    /\ AllowOversubscription
    /\ \E pu \in PuInputs : OccupancyCount(PartState, pu) > 0

\* C14: a second assign_cores(x) right after assign_cores(x) changes neither
\* the pools' PU ids and masks, nor the cached first core, nor the affinity
\* data.
C14_AssignCoresIdempotent ==
    phase = "ready" =>
        \A first_core \in CoreInputs :
            \A once \in {AssignCores(AffinityState, first_core)} :
                AssignCores(once, first_core) = once

\* C14 witness: assign_cores(1) was called on configured pools, so that
\* another assign_cores(1) is the second call of the claim, made on pools
\* that hold PUs.
C14_Witness ==
    /\ is_initialized_
    /\ ~configured
    /\ first_core_ = 1
    /\ initial_thread_pools_[1].num_threads_ > 0
    /\ affinity_pu_nums # << >>

\* the pools with the assigned flag of one virtual core set to b
WithAssigned(pools, pool_name, virt_core, b) ==
    [pools EXCEPT ![FindPool(pools, pool_name)]
                      .assigned_pu_nums_[virt_core + 1][3] = b]

\* the worker's previous call was assign_pu(pool_name, virt_core)
JustAssigned(pool_name, virt_core) ==
    /\ last_pu_call.op = "assign_pu"
    /\ last_pu_call.pool_name = pool_name
    /\ last_pu_call.virt_core = virt_core

\* C15 as stated: an unassign_pu(p, v) that follows an assign_pu(p, v) of
\* the same thread leaves the flag of v unassigned, as it was before the
\* assign_pu, and changes no other entry of any pool.
C15_RoundTrip ==
    [][\A pool_name \in PoolNames, virt_core \in VirtCores :
           (/\ JustAssigned(pool_name, virt_core)
            /\ UnassignPuCall("worker", pool_name, virt_core))
               => initial_thread_pools_' =
                      WithAssigned(initial_thread_pools_, pool_name,
                                   virt_core, FALSE)]_vars

\* C15 amended: an unassign_pu(p, v) that follows an assign_pu(p, v) of the
\* same thread and finds the partitioner mutex free leaves the flag of v
\* unassigned and changes no other entry of any pool; one that finds the
\* mutex taken changes nothing, so the flag stays as the assign_pu left it.
C15_RoundTripUnlessLocked ==
    [][\A pool_name \in PoolNames, virt_core \in VirtCores :
           (/\ JustAssigned(pool_name, virt_core)
            /\ UnassignPuCall("worker", pool_name, virt_core))
               => initial_thread_pools_' =
                      IF mtx_ = Free
                      THEN WithAssigned(initial_thread_pools_, pool_name,
                                        virt_core, FALSE)
                      ELSE initial_thread_pools_]_vars

\* C15 witness: the worker's unassign_pu followed its assign_pu of the same
\* virtual core, took the mutex, and the flag is back to unassigned while
\* another entry is assigned.
C15_Witness ==
    /\ last_pu_call.op = "unassign_pu"
    /\ last_pu_call.after_assign
    /\ last_pu_call.locked
    /\ LET d == initial_thread_pools_[
                    FindPool(initial_thread_pools_, last_pu_call.pool_name)]
       IN /\ ~PuIsAssigned(d, last_pu_call.virt_core)
          /\ \E v \in VirtCores :
                 v < d.num_threads_ /\ PuIsAssigned(d, v)

\* the virtual cores of the entries data that are non-exclusive and whose
\* assigned flag is assigned, in increasing order
NonExclusiveVirtCores(data, assigned) ==
    SelectSeq([k \in 1 .. Len(data) |-> k - 1],
              LAMBDA v : ~data[v + 1][2] /\ data[v + 1][3] = assigned)

\* a scan of shrink_pool or expand_pool has failed an HPX_ASSERT
ScanAssertFailed == assert_failed \in {"pu_is_exclusive", "pu_is_assigned"}

\* the call in progress has returned a count
Returned(op) == call.op = op /\ call.pc = "done" /\ call.err = "none"

\* C16: with allow_dynamic_pools, shrink_pool on a pool is not cut short, and
\* when it returns it has invoked the callback once for each virtual core
\* whose entry was non-exclusive and assigned, in increasing order, for no
\* other entry, and returns their number.
C16_ShrinkPoolCallbacks ==
    (AllowDynamicPools /\ call.op = "shrink_pool") =>
        /\ ~ScanAssertFailed
        /\ Returned("shrink_pool") =>
               /\ call.entries = NonExclusiveVirtCores(call.data, TRUE)
               /\ Len(call.log) = Len(call.entries)
               /\ call.result = Len(call.entries)

\* C17: each argument shrink_pool passes to remove_pu is the PU id stored in
\* the entry it was collected for.
C17_CallbackGetsPuId ==
    call.op = "shrink_pool" =>
        \A k \in DOMAIN call.log :
            call.log[k] = call.data[call.entries[k] + 1][1]

\* the pool the call names exists and all its entries are exclusive
AllExclusive ==
    /\ FindPool(initial_thread_pools_, call.pool_name) # 0
    /\ \A e \in DOMAIN initial_thread_pools_[
                     FindPool(initial_thread_pools_, call.pool_name)]
                     .assigned_pu_nums_ :
           initial_thread_pools_[
               FindPool(initial_thread_pools_, call.pool_name)]
               .assigned_pu_nums_[e][2]

\* the call has thrown BadParameter and no callback was invoked
ThrewBadParameter ==
    call.pc = "done" /\ call.err = "BadParameter" /\ call.log = <<>>

\* C18: shrink_pool and expand_pool throw BadParameter without invoking the
\* callback when allow_dynamic_pools is not set, and also when the pool has no
\* non-exclusive entry: once the pool is scanned the call has thrown.
C18_ResizeRejected ==
    call.op \in {"shrink_pool", "expand_pool"} =>
        /\ ~AllowDynamicPools => ThrewBadParameter
        /\ (AllowDynamicPools /\ AllExclusive) =>
               /\ ~ScanAssertFailed
               /\ call.pc \in {"lock", "scan"} \/ ThrewBadParameter

\* C19: while a callback of shrink_pool or expand_pool runs, the thread that
\* called shrink_pool or expand_pool does not own the partitioner mutex, so
\* that the callback's own assign_pu or unassign_pu does not wait for its
\* own thread; the thread owns the mutex only while it scans the pool.
C19_CallbacksOutsideLock ==
    /\ call.pc = "in_callback" => mtx_ # "caller"
    /\ mtx_ = "caller" => call.pc = "scan"

\* C19 witness: the add_pu callback of expand_pool has itself called
\* assign_pu for the virtual core it was handed, with no call of the worker.
C19_Witness ==
    /\ call.op = "expand_pool"
    /\ call.pc = "in_callback"
    /\ last_pu_call = NoPuCall
    /\ PuIsAssigned(initial_thread_pools_[
                        FindPool(initial_thread_pools_, call.pool_name)],
                    call.log[Len(call.log)])

\* C20: with allow_dynamic_pools, expand_pool on a pool is not cut short, and
\* when it returns it has invoked the callback once for each virtual core
\* whose entry was non-exclusive and unassigned, in increasing order, and
\* returns their number.
C20_ExpandPoolCallbacks ==
    (AllowDynamicPools /\ call.op = "expand_pool") =>
        /\ ~ScanAssertFailed
        /\ Returned("expand_pool") =>
               /\ call.entries = NonExclusiveVirtCores(call.data, FALSE)
               /\ Len(call.log) = Len(call.entries)
               /\ call.result = Len(call.entries)

\* partitioner::get_num_threads(pool_name), for a pool that exists
GetNumThreadsOf(pools, pool_name) ==
    pools[FindPool(pools, pool_name)].num_threads_

\* C23: no step of assign_pu, unassign_pu, shrink_pool or expand_pool changes
\* what get_num_threads(pool) returns, for any pool.
C23_ThreadCountKept ==
    [][\A pool_name \in PoolNames :
           FindPool(initial_thread_pools_, pool_name) # 0 =>
               /\ FindPool(initial_thread_pools_', pool_name) # 0
               /\ GetNumThreadsOf(initial_thread_pools_', pool_name) =
                      GetNumThreadsOf(initial_thread_pools_, pool_name)]_vars

\* C23 witness: shrink_pool has returned after its callbacks unassigned the
\* virtual cores they were handed, and the default pool still counts all
\* hpx.os_threads threads.
C23_Witness ==
    /\ Returned("shrink_pool")
    /\ call.pool_name = GetDefaultPoolName
    /\ call.result > 0
    /\ Len(initial_thread_pools_) = 1
    /\ \A k \in DOMAIN call.log :
           ~PuIsAssigned(initial_thread_pools_[1], call.log[k])
    /\ GetNumThreadsOf(initial_thread_pools_, GetDefaultPoolName) =
           os_threads

\* the thread t may call unassign_pu for virtual core virt_core of pool_name
MayUnassign(t, pool_name, virt_core) ==
    Running /\ CanCall(t) /\ IsVirtCore(pool_name, virt_core)

\* C30: unassign_pu can always be taken to its end, whoever owns the mutex:
\* a call that finds the mutex owned changes neither the pools nor the
\* mutex, and a call that finds it free leaves the flag of the virtual core
\* unassigned, every other entry as it was, and the mutex free.
C30_UnassignPuNeverBlocks ==
    /\ [](\A t \in Threads, pool_name \in PoolNames,
             virt_core \in VirtCores :
               MayUnassign(t, pool_name, virt_core) =>
                   ENABLED UnassignPuCall(t, pool_name, virt_core))
    /\ [][\A t \in Threads, pool_name \in PoolNames,
             virt_core \in VirtCores :
               UnassignPuCall(t, pool_name, virt_core) =>
                   /\ mtx_' = mtx_
                   /\ initial_thread_pools_' =
                          IF mtx_ = Free
                          THEN WithAssigned(initial_thread_pools_, pool_name,
                                            virt_core, FALSE)
                          ELSE initial_thread_pools_]_vars

\* C30 witness: the worker called unassign_pu while the caller of shrink_pool
\* or expand_pool owned the mutex, and the virtual core is still assigned.
C30_Witness ==
    /\ last_pu_call.op = "unassign_pu"
    /\ ~last_pu_call.locked
    /\ mtx_ = "caller"
    /\ PuIsAssigned(initial_thread_pools_[
                        FindPool(initial_thread_pools_,
                                 last_pu_call.pool_name)],
                    last_pu_call.virt_core)

\* C29: assign_cores(f) with a cached first core c # f (c read as 0 while
\* unset) replaces every PU id by (pu_id + (f - c) * pus_per_core) modulo
\* hardware_concurrency, makes every mask the one-hot mask of the new id,
\* caches f and rewrites the affinity map pool-major; the PU arithmetic is
\* that of the integers on a machine of any size.
C29_AssignCoresShifts ==
    /\ \A f \in CoreInputs :
           f # first_core_ =>
               \A r \in {AssignCores(AffinityState, f)} :
                   LET c == IF first_core_ = Unset THEN 0 ELSE first_core_
                   IN /\ r.first_core = f
                      /\ Len(r.pools) = Len(initial_thread_pools_)
                      /\ \A i \in PoolIndices :
                             \A k \in 1 .. initial_thread_pools_[i].num_threads_ :
                                 /\ r.pools[i].assigned_pu_nums_[k][1] =
                                        (initial_thread_pools_[i]
                                             .assigned_pu_nums_[k][1]
                                         + (f - c) * PusPerCore)
                                        % HardwareConcurrency
                                 /\ r.pools[i].assigned_pus_[k] =
                                        {r.pools[i].assigned_pu_nums_[k][1]}
                      /\ r.pu_nums = ConcatPuNums(r.pools)
                      /\ r.masks = ConcatMasks(r.pools)
    /\ \A hc \in MachineSizes :
           \A c \in 0 .. (hc - 1), f \in 0 .. (hc - 1), pu_num \in 0 .. (hc - 1) :
               f # c =>
                   ShiftPuNum(pu_num, AssignCoresOffset(c, f), hc) =
                       (pu_num + (f - c) * PusPerCore) % hc

\* str is the beginning of name
IsPrefix(str, name) ==
    /\ Len(str) <= Len(name)
    /\ \A k \in 1 .. Len(str) : str[k] = name[k]

\* the beginnings of the names of a scan, and some strings that begin none
PrefixesOf(scan) ==
    UNION {{SubSeq(scan[k][1], 1, n) : n \in 0 .. Len(scan[k][1])} :
               k \in DOMAIN scan}

OtherStrings ==
    {S_banana, S_local \o <<"x">>, <<"o", "c", "a", "l">>,
     S_local \o S_priority \o S_fifo \o <<"s">>, S_static \o <<"_">>}

\* the strings hpx.scheduler holds in the configuration runs
LookedUp == {DefaultSchedulerStr(entry) : entry \in HpxSchedulerEntries}

\* the places of the scan whose name begins with str
Matches(scan, str) == {k \in DOMAIN scan : IsPrefix(str, scan[k][1])}

\* the policies of the pools, in the order of the pools
Policies(pools) == [i \in DOMAIN pools |-> pools[i].scheduling_policy_]

\* C21: setup_schedulers that succeeds leaves the resolved default in every
\* pool that held unspecified and leaves every other pool its policy, and
\* nothing else of a pool is changed; for a string that begins no known name
\* it throws the command line error and no pool is changed.
C21_SetupSchedulersFills ==
    \A str \in LookedUp :
        \A r \in {SetupSchedulers(initial_thread_pools_, str)} :
            /\ r.err = "none" =>
                   /\ Matches(SchedulerScan, str) # {}
                   /\ DOMAIN r.pools = PoolIndices
                   /\ \A i \in PoolIndices :
                          r.pools[i] =
                              [initial_thread_pools_[i] EXCEPT
                                 !.scheduling_policy_ =
                                     IF @ = "unspecified"
                                     THEN ResolveScheduler(str) ELSE @]
                   /\ \A i \in PoolIndices :
                          r.pools[i].scheduling_policy_ # "unspecified"
            /\ Matches(SchedulerScan, str) = {} =>
                   /\ r.err = "CommandLineError"
                   /\ r.pools = initial_thread_pools_

\* C21 witness: configure_pools has returned, one pool holds the policy its
\* creator gave it and another the default resolved from the empty string.
C21_Witness ==
    /\ configured
    /\ \E i \in PoolIndices, j \in PoolIndices :
           /\ initial_thread_pools_[i].scheduling_policy_ = "static_priority"
           /\ initial_thread_pools_[j].scheduling_policy_ = "local"

\* no pool holds unspecified: which_scheduler returns a policy for the name
\* of every pool
AllResolved ==
    \A i \in PoolIndices :
        /\ WhichScheduler(initial_thread_pools_,
                          initial_thread_pools_[i].pool_name_).err = "none"
        /\ WhichScheduler(initial_thread_pools_,
                          initial_thread_pools_[i].pool_name_).policy
               # "unspecified"

\* C22: in every state after a configure_pools that returned, which_scheduler
\* returns a concrete policy for the name of every pool.
C22_ResolvedEverAfter == is_initialized_ => AllResolved

\* C22, amended: in the state configure_pools returns into, which_scheduler
\* returns a concrete policy for the name of every pool, and a step after
\* which it no longer does is a call of create_thread_pool or set_scheduler.
C22_ResolvedUntilRedefined ==
    /\ [](configured => AllResolved)
    /\ [][AllResolved /\ ~AllResolved' =>
              \/ \E pool_name \in ConfPoolNames :
                     CreateThreadPoolCall(pool_name, "unspecified")
              \/ \E pool_name \in ConfPoolNames :
                     SetSchedulerCall("unspecified", pool_name)]_vars

\* C22 witness: configure_pools has returned with two pools, both of which
\* got their policy from the configuration.
C22_Witness ==
    /\ configured
    /\ Len(initial_thread_pools_) = 2
    /\ \A i \in PoolIndices :
           initial_thread_pools_[i].scheduling_policy_ = "local_priority_fifo"

\* the policy of the first name of the scan that begins with str, "" when
\* there is none
FirstMatch(scan, str) ==
    IF \A k \in DOMAIN scan : ~IsPrefix(str, scan[k][1]) THEN ""
    ELSE scan[CHOOSE k \in DOMAIN scan :
                  /\ IsPrefix(str, scan[k][1])
                  /\ \A m \in 1 .. (k - 1) : ~IsPrefix(str, scan[m][1])][2]

\* C27: setup_schedulers resolves a string to the policy of the first name,
\* in the order of the scan, that the string begins, in a build with the
\* work-requesting schedulers and in one without: "local" to local, "local-p"
\* to local_priority_fifo, "static" to static_; a string that begins no name
\* is rejected, and setup_schedulers called with the string does the same.
C27_FirstPrefixMatch ==
    /\ \A scan \in SchedulerScanBuilds :
           /\ \A str \in PrefixesOf(scan) \cup OtherStrings :
                  ResolveFrom(scan, str) = FirstMatch(scan, str)
           /\ ResolveFrom(scan, S_local) = "local"
           /\ ResolveFrom(scan, S_local_p) = "local_priority_fifo"
           /\ ResolveFrom(scan, S_static) = "static_"
           /\ \A str \in OtherStrings : ResolveFrom(scan, str) = ""
    /\ \A str \in LookedUp :
           \A r \in {SetupSchedulers(initial_thread_pools_, str)} :
               /\ (r.err = "none") = (FirstMatch(SchedulerScan, str) # "")
               /\ \A i \in PoolIndices :
                      /\ r.err = "none"
                      /\ initial_thread_pools_[i].scheduling_policy_
                             = "unspecified"
                      => r.pools[i].scheduling_policy_ =
                             FirstMatch(SchedulerScan, str)

\* C27 witness: configure_pools has returned and the default pool holds
\* local_priority_fifo, the first of the names "local-p" begins.
C27_Witness ==
    /\ configured
    /\ is_initialized_
    /\ initial_thread_pools_[1].scheduling_policy_ = "local_priority_fifo"
    /\ Len(initial_thread_pools_) = 2

\* C28: when hpx.scheduler is absent or empty at the lookup, setup_schedulers
\* succeeds and every pool that held unspecified gets local_priority_fifo.
C28_DefaultIsLocalPriorityFifo ==
    \A entry \in {<<>>, <<<<>>>>} :
        \A r \in {SetupSchedulers(initial_thread_pools_,
                                  DefaultSchedulerStr(entry))} :
            /\ r.err = "none"
            /\ \A i \in PoolIndices :
                   initial_thread_pools_[i].scheduling_policy_ = "unspecified"
                   => r.pools[i].scheduling_policy_ = "local_priority_fifo"

\* a pool other than the default pool has no thread
HasEmptyUserPool ==
    \E i \in PoolIndices :
        /\ initial_thread_pools_[i].pool_name_ # GetDefaultPoolName
        /\ initial_thread_pools_[i].num_threads_ = 0

\* a step leaves the policies, the affinity data and is_initialized_ alone:
\* neither setup_schedulers nor reconfigure_affinities has run
LaterPhasesNotRun ==
    /\ Policies(initial_thread_pools_') = Policies(initial_thread_pools_)
    /\ affinity_pu_nums' = affinity_pu_nums
    /\ affinity_masks' = affinity_masks
    /\ is_initialized_' = is_initialized_

\* C24: a call of configure_pools made while a user pool has no resource
\* throws the no-empty-pools error of setup_pools, runs neither
\* setup_schedulers nor reconfigure_affinities and leaves is_initialized_.
C24_EmptyPoolError ==
    [][\A entry \in HpxSchedulerEntries :
           ConfigurePoolsLookup(entry) /\ HasEmptyUserPool =>
               /\ SetupPoolsThrowsAt(PartState) = "check_empty_pools"
               /\ LaterPhasesNotRun]_vars

\* C24, amended: such a call throws in setup_pools: the no-empty-pools error
\* when the loop over the free PUs has ended and the default pool has a
\* thread, else the error of add_resource or the one for a default pool
\* without threads; it runs neither setup_schedulers nor
\* reconfigure_affinities and leaves is_initialized_.
C24_EmptyPoolFails ==
    [][\A entry \in HpxSchedulerEntries :
           ConfigurePoolsLookup(entry) /\ HasEmptyUserPool =>
               /\ SetupPoolsThrowsAt(PartState)
                      \in {"add_resource", "default_pool",
                           "check_empty_pools"}
               /\ SetupPools(PartState).err # "none"
               /\ (/\ SetupPoolsLoop(PartState, numa_domains_, TRUE).err
                          = "none"
                   /\ SetupPoolsLoop(PartState, numa_domains_, TRUE)
                          .st.pools[1].num_threads_ > 0
                   => SetupPoolsThrowsAt(PartState) = "check_empty_pools")
               /\ ~configured'
               /\ LaterPhasesNotRun]_vars

\* C24 witness: configure_pools has bound the second free PU to the default
\* pool non-exclusively and has not returned, a user pool being empty.
C24_Witness ==
    /\ HasEmptyUserPool
    /\ ~is_initialized_
    /\ ~configured
    /\ \E k \in DOMAIN initial_thread_pools_[1].assigned_pu_nums_ :
           ~initial_thread_pools_[1].assigned_pu_nums_[k][2]
    /\ \A i \in PoolIndices :
           initial_thread_pools_[i].scheduling_policy_ = "unspecified"

FreePus == SelectSeq(numa_domains_, LAMBDA pu : thread_occupancy_count_[pu] = 0)

\* the entries setup_pools gives the default pool for the first n free PUs
DefaultEntries(n) ==
    [k \in 1 .. n |-> <<FreePus[k], k = 1 \/ ~AllowDynamicPools, FALSE>>]

\* the loop of setup_pools has bound the first n free PUs to the default
\* pool, and nothing else to any pool
BoundToDefault(r, n) ==
    /\ DOMAIN r.st.pools = PoolIndices
    /\ r.st.pools[1].assigned_pu_nums_ =
           initial_thread_pools_[1].assigned_pu_nums_ \o DefaultEntries(n)
    /\ \A i \in PoolIndices \ {1} : r.st.pools[i] = initial_thread_pools_[i]
    /\ \A pu \in PUs :
           r.st.occ[pu] =
               IF \E k \in 1 .. n : FreePus[k] = pu
               THEN 1 ELSE thread_occupancy_count_[pu]

\* an add_resource call of the loop of setup_pools throws: the free PUs take
\* the threads past hpx.os_threads
LoopThrows ==
    /\ ~AllowOversubscription
    /\ Len(FreePus) > 0
    /\ num_threads_overall + Len(FreePus) > os_threads

\* the number of free PUs the loop of setup_pools binds: all of them, or
\* those up to the one whose add_resource call throws
BoundBeforeThrow ==
    IF ~LoopThrows THEN Len(FreePus)
    ELSE IF num_threads_overall >= os_threads THEN 1
    ELSE os_threads - num_threads_overall + 1

\* C26: the loop of setup_pools binds every mirror PU whose occupancy count
\* is 0 to the default pool, in the order of the mirror, the first
\* exclusively and a later one non-exclusively exactly when
\* allow_dynamic_pools is set, and binds no other PU; the loop ends before
\* the last free PU only at an add_resource call that throws.
C26_FreePusToDefault ==
    phase = "ready" =>
        \A r \in {SetupPoolsLoop(PartState, numa_domains_, TRUE)} :
            /\ BoundToDefault(r, BoundBeforeThrow)
            /\ r.err = "none" => BoundBeforeThrow = Len(FreePus)
            /\ r.err = IF LoopThrows THEN "Runtime" ELSE "none"

\* C26 witness: allow_dynamic_pools is set, a user pool holds the first PU
\* of a machine, and setup_pools has bound the other to the default pool:
\* the first free PU, exclusively.
C26_Witness ==
    /\ configured
    /\ AllowDynamicPools
    /\ Len(initial_thread_pools_) = 2
    /\ initial_thread_pools_[2].assigned_pu_nums_ = <<<<0, TRUE, FALSE>>>>
    /\ Len(initial_thread_pools_[1].assigned_pu_nums_) >= 1
    /\ initial_thread_pools_[1].assigned_pu_nums_[1][2]
    /\ initial_thread_pools_[1].assigned_pu_nums_[1][1] # 0

\* the PU number assign_cores(first_core) leaves in the place of pu_num on a
\* machine of hc processing units, cached being the first core of the call
\* before
ShiftedBy(pu_num, cached, first_core, hc) ==
    IF AssignCoresOffset(cached, first_core) # 0
    THEN ShiftPuNum(pu_num, AssignCoresOffset(cached, first_core), hc)
    ELSE pu_num

\* C37: assign_cores(a) followed by assign_cores(b) leaves the PU ids (and
\* the rest of what assign_cores writes) that assign_cores(b) alone leaves,
\* from the layout of the state and, for the PU arithmetic, on a machine of
\* any size, b < a included.
C37_AssignCoresComposes ==
    /\ \A a \in CoreInputs, b \in CoreInputs :
           \A once \in {AssignCores(AffinityState, a)} :
               AssignCores(once, b) = AssignCores(AffinityState, b)
    /\ \A hc \in MachineSizes :
           \A a \in 0 .. (hc - 1), b \in 0 .. (hc - 1), pu_num \in 0 .. (hc - 1) :
               ShiftedBy(ShiftedBy(pu_num, 0, a, hc), a, b, hc) =
                   ShiftedBy(pu_num, 0, b, hc)

\* the PU ids of the worker slots of all pools are pairwise different
SlotsDistinct(pools) ==
    \A pu_nums \in {ConcatPuNums(pools)} :
        \A i \in DOMAIN pu_nums, j \in DOMAIN pu_nums :
            i # j => pu_nums[i] # pu_nums[j]

\* C36: without allow_oversubscription, when configure_pools has returned
\* successfully no PU id stands in two worker slots, of one pool or of
\* two, whatever create_thread_pool, add_resource and assign_cores calls
\* came before.
C36_NoPuInTwoSlots ==
    (configured /\ ~AllowOversubscription) =>
        SlotsDistinct(initial_thread_pools_)

\* the entries of the default pool that are exclusive
ExclusiveEntries(d) ==
    {k \in DOMAIN d.assigned_pu_nums_ : d.assigned_pu_nums_[k][2]}

\* C38: with allow_dynamic_pools, when configure_pools has returned
\* successfully the default pool holds an exclusive entry, whatever
\* add_resource calls the user made, those that bind PUs to the default
\* pool non-exclusively included.
C38_DefaultKeepsExclusive ==
    (configured /\ AllowDynamicPools) =>
        ExclusiveEntries(initial_thread_pools_[1]) # {}

\* C35: with allow_dynamic_pools no assertion of pu_is_exclusive or
\* pu_is_assigned fails while shrink_pool or expand_pool scans a pool,
\* entries that are not assigned included.
C35_ScanNeverAsserts ==
    AllowDynamicPools => ~ScanAssertFailed

\* the PU id and the exclusive flag of every entry of the pool d, in order
Layout(d) ==
    [k \in DOMAIN d.assigned_pu_nums_ |->
        <<d.assigned_pu_nums_[k][1], d.assigned_pu_nums_[k][2]>>]

\* The scenario: allow_dynamic_pools, every PU of the machine exposed and
\* counted in hpx.os_threads, and a second pool to which the user has bound
\* the last PU of the machine, non-exclusively, before configure_pools.
S3Scenario ==
    /\ AllowDynamicPools
    /\ Len(initial_thread_pools_) = 2
    /\ Layout(initial_thread_pools_[2]) = <<<<HardwareConcurrency - 1, FALSE>>>>

\* shrink_pool("default", cb) has ended, and every worker of the default
\* pool was assigned when it scanned the pool
S3Shrunk ==
    /\ call.op = "shrink_pool"
    /\ call.pool_name = GetDefaultPoolName
    /\ call.pc = "done"
    /\ call.data # <<>>
    /\ \A k \in DOMAIN call.data : call.data[k][3]

\* The default pool holds the first n PUs, PU 0 exclusively and the others
\* non-exclusively, and shrink_pool invokes the callback for the virtual
\* cores 1 .. n - 1 in order and returns n - 1; with no non-exclusive PU
\* in the pool it throws instead.
S3Expect(n) ==
    /\ Layout(initial_thread_pools_[1]) = [k \in 1 .. n |-> <<k - 1, k = 1>>]
    /\ S3Shrunk =>
           IF n > 1
           THEN /\ call.err = "none"
                /\ call.log = [k \in 1 .. (n - 1) |-> k]
                /\ call.result = n - 1
           ELSE /\ call.err = "BadParameter"
                /\ call.log = <<>>

RECURSIVE ConcatSeqs(_)
ConcatSeqs(seqs) ==
    IF seqs = <<>> THEN <<>> ELSE Head(seqs) \o ConcatSeqs(Tail(seqs))

\* topology::get_number_of_numa_nodes, or get_number_of_sockets
GetNumberOfNumaNodes(numa) == Len(numa)

\* topology::get_number_of_numa_node_cores(numa_node)
GetNumberOfNumaNodeCores(numa, numa_node) == Len(numa[numa_node + 1])

\* topology::get_number_of_core_pus(core): core is the number of the core
\* in the machine
GetNumberOfCorePus(numa, core) == ConcatSeqs(numa)[core + 1]

\* threads::hardware_concurrency()
NumberOfPus(numa) == SumSeq(ConcatSeqs(numa))

\* partitioner::pu_exposed. For a pu_num past the last PU of the machine the
\* test reads past the masks; the machine's exposed set holds these numbers
\* too and says what the test then gives.
PuExposed(t, pu_num) == pu_num \in t.exposed

\* the loop on the processing units of a core
RECURSIVE WalkPus(_, _, _, _)
WalkPus(t, pid, k, core_pus) ==
    IF k = core_pus THEN <<>>
    ELSE (IF PuExposed(t, pid) THEN <<pid>> ELSE <<>>)
         \o WalkPus(t, pid + 1, k + 1, core_pus)

\* the loop on the cores of the domain i: a core that exposed no PU is
\* popped again
RECURSIVE WalkCores(_, _, _, _, _)
WalkCores(t, i, j, pid, cores_) ==
    IF j = GetNumberOfNumaNodeCores(t.numa, i)
    THEN [cores_ |-> cores_, pid |-> pid]
    ELSE LET core_pus == GetNumberOfCorePus(t.numa, j)
             pus_ == WalkPus(t, pid, 0, core_pus)
         IN WalkCores(t, i, j + 1, pid + core_pus,
                      IF pus_ # <<>>
                      THEN Append(cores_, [id_ |-> j, pus_ |-> pus_])
                      ELSE cores_)

\* the loop on the NUMA domains: a domain without an exposed core is popped
\* again
RECURSIVE WalkDomains(_, _, _, _)
WalkDomains(t, i, pid, domains) ==
    IF i = GetNumberOfNumaNodes(t.numa) THEN domains
    ELSE LET r == WalkCores(t, i, 0, pid, <<>>)
         IN WalkDomains(t, i + 1, r.pid,
                        IF r.cores_ # <<>>
                        THEN Append(domains, [id_ |-> i, cores_ |-> r.cores_])
                        ELSE domains)

\* partitioner::fill_topology_vectors on the machine t
FillTopologyWalk(t) == WalkDomains(t, 0, 0, <<>>)

\* the value of pid when the walk over the machine ends
RECURSIVE PidsWalked(_, _)
PidsWalked(numa, i) ==
    IF i = Len(numa) THEN 0
    ELSE SumSeq([j \in DOMAIN numa[i + 1] |-> GetNumberOfCorePus(numa, j - 1)])
         + PidsWalked(numa, i + 1)

\* the lists of cores whose PUs number n at most
RECURSIVE CoreLists(_)
CoreLists(n) ==
    {<<>>} \cup
    UNION {{<<c>> \o rest : rest \in CoreLists(n - c)} : c \in 1 .. n}

\* the machines of d domains at most and n PUs at most
RECURSIVE Machines(_, _)
Machines(n, d) ==
    IF d = 0 THEN {<<>>}
    ELSE {<<>>} \cup
         UNION {{<<dom>> \o rest :
                     rest \in Machines(n - SumSeq(dom), d - 1)} :
                dom \in CoreLists(n)}

\* the PU numbers pu_exposed can be asked about on the machine: those of its
\* PUs and those the walk reaches
PuNumbers(numa) ==
    0 .. ((IF PidsWalked(numa, 0) > NumberOfPus(numa)
           THEN PidsWalked(numa, 0) ELSE NumberOfPus(numa)) - 1)

\* the machines the walk is followed on, each with every exposure
Topologies ==
    UNION {{[numa |-> numa, exposed |-> exposed] :
                exposed \in SUBSET PuNumbers(numa)} :
           numa \in {m \in Machines(MaxMachine, MaxMachine) :
                        NumberOfPus(m) > 0}}

InitTopo ==
    /\ instance_number_counter_ = InstanceCounterInit + 1
    /\ alive = {1}
    /\ mode_ = {}
    /\ os_threads = 0
    /\ numa_domains_ = <<>>
    /\ thread_occupancy_count_ = [p \in PUs |-> 0]
    /\ initial_thread_pools_ = <<InitPoolData("default", "unspecified")>>
    /\ num_threads_overall = 0
    /\ first_core_ = Unset
    /\ affinity_pu_nums = <<>>
    /\ affinity_masks = <<>>
    /\ is_initialized_ = FALSE
    /\ phase = "constructed"
    /\ configured = FALSE
    /\ hpx_debug = FALSE
    /\ mtx_ = Free
    /\ call = NoCall
    /\ assert_failed = "none"
    /\ last_pu_call = NoPuCall
    /\ topo \in Topologies
    /\ mirror = NoMirror
    /\ ops = <<>>
    /\ handed = <<>>

\* partitioner::init calls fill_topology_vectors, once
FillTopologyVectorsCall ==
    /\ ~mirror.filled
    /\ mirror' = [filled |-> TRUE, numa_domains_ |-> FillTopologyWalk(topo)]
    /\ UNCHANGED <<topo, ops, handed>>
    /\ UNCHANGED part_vars
    /\ UNCHANGED <<hpx_debug, mtx_, call, assert_failed, last_pu_call>>
    /\ UNCHANGED life_vars

NextTopo == FillTopologyVectorsCall

SpecTopo == InitTopo /\ [][NextTopo]_vars

\* the PU ids of the mirror, in the order domain, core, PU
MirrorPus(domains) ==
    ConcatSeqs([i \in DOMAIN domains |->
        ConcatSeqs([j \in DOMAIN domains[i].cores_ |->
            domains[i].cores_[j].pus_])])

\* the PUs of the machine that are exposed
ExposedPus(t) == {pid \in 0 .. (NumberOfPus(t.numa) - 1) : PuExposed(t, pid)}

\* C34: after fill_topology_vectors the mirror holds exactly the exposed
\* PUs of the machine, its PU ids increase strictly in iteration order
\* (so each occurs once), no core is left without a PU and no domain
\* without a core, whatever the shape of the machine and the exposure.
C34_MirrorIsExposedPus ==
    mirror.filled =>
        \A pus \in {MirrorPus(mirror.numa_domains_)} :
            /\ {pus[k] : k \in DOMAIN pus} = ExposedPus(topo)
            /\ \A k \in DOMAIN pus : k > 1 => pus[k - 1] < pus[k]
            /\ \A i \in DOMAIN mirror.numa_domains_ :
                   /\ mirror.numa_domains_[i].cores_ # <<>>
                   /\ \A j \in DOMAIN mirror.numa_domains_[i].cores_ :
                          mirror.numa_domains_[i].cores_[j].pus_ # <<>>

\* ------------------------------------- operations of two threads, by lock
\* std::unique_lock and std::lock_guard around mtx_: whether the object owns
\* the mutex, and how often the mutex was released through it
Acquired == [owns |-> TRUE, released |-> 0]

\* l.unlock()
UniqueLockUnlock(l) == [owns |-> FALSE, released |-> l.released + 1]

\* a destructor that releases whether or not the lock is still owned
UniqueLockDtorAlways(l) == [owns |-> FALSE, released |-> l.released + 1]

\* ~unique_lock: releases the mutex when it is still owned
UniqueLockDtor(l) ==
    IF l.owns THEN [owns |-> FALSE, released |-> l.released + 1] ELSE l

\* ~lock_guard
LockGuardDtor(l) == [owns |-> FALSE, released |-> l.released + 1]

\* the unique_lock when its scope is left by return or by throw; unlocked:
\* the path has called l.unlock() before
UniqueLockScope(unlocked) ==
    UniqueLockDtor(IF unlocked THEN UniqueLockUnlock(Acquired) ELSE Acquired)

\* the mutex owned by owner, after the lock object l is gone
MutexAfter(owner, l) == IF l.released > 0 THEN Free ELSE owner

\* no operation: the thread is outside the partitioner
NoOp ==
    [op |-> "none", pool_name |-> "", pu |-> 0, index |-> 0, stage |-> "",
     pc |-> "idle", k |-> 1, first |-> TRUE, err |-> "none", released |-> 0]

\* a pool index past the pool vector
NoSuchIndex == 7

\* the calls of the thread "worker"
WorkerOps ==
    {[NoOp EXCEPT !.op = "create_thread_pool", !.pool_name = "io"]}
    \cup {[NoOp EXCEPT !.op = "add_resource", !.pool_name = pool_name,
                        !.pu = pu] :
              pool_name \in {"io", NoSuchPool},
              pu \in PUs \cup {HardwareConcurrency}}
    \cup {[NoOp EXCEPT !.op = "get_num_threads", !.index = index] :
              index \in {0, NoSuchIndex}}
    \cup {[NoOp EXCEPT !.op = "which_scheduler",
                        !.pool_name = GetDefaultPoolName]}
    \cup {[NoOp EXCEPT !.op = "get_pool_name", !.index = index] :
              index \in {0, NoSuchIndex}}

\* the operations that take no lock
LockFreeOps == {"get_pool_name"}

\* The partitioner after init on a machine whose PUs are all exposed; the
\* main thread ("caller") is about to call configure_pools, another thread
\* ("worker") calls into the partitioner as it likes.
InitConc ==
    /\ instance_number_counter_ = InstanceCounterInit + 1
    /\ alive = {1}
    /\ mode_ \in SUBSET {"allow_dynamic_pools"}
    /\ os_threads \in {1, HardwareConcurrency}
    /\ numa_domains_ = FillTopologyVectors(0, PUs)
    /\ thread_occupancy_count_ = [p \in PUs |-> 0]
    /\ initial_thread_pools_ = <<InitPoolData("default", "unspecified")>>
    /\ num_threads_overall = 0
    /\ first_core_ = 0
    /\ affinity_pu_nums = <<>>
    /\ affinity_masks = <<>>
    /\ is_initialized_ = FALSE
    /\ phase = "ready"
    /\ configured = FALSE
    /\ hpx_debug = FALSE
    /\ mtx_ = Free
    /\ call = NoCall
    /\ assert_failed = "none"
    /\ last_pu_call = NoPuCall
    /\ topo = NoTopology
    /\ mirror = NoMirror
    /\ ops = [t \in Threads |-> NoOp]
    /\ handed = <<>>

\* what no step of these threads changes
conc_fixed == <<mode_, os_threads, numa_domains_, first_core_, phase,
                hpx_debug, call, assert_failed, last_pu_call, topo, mirror,
                handed>>

\* the worker enters the operation o: an operation that locks waits for the
\* mutex, get_pool_name goes on to read the pool vector
WorkerCalls(o) ==
    /\ ops["worker"].pc = "idle"
    /\ ops' = [ops EXCEPT !["worker"] =
                  [o EXCEPT !.pc = IF o.op \in LockFreeOps
                                   THEN "reading" ELSE "wait"]]
    /\ UNCHANGED <<thread_occupancy_count_, initial_thread_pools_,
                   num_threads_overall, affinity_pu_nums, affinity_masks,
                   is_initialized_, configured, mtx_>>
    /\ UNCHANGED conc_fixed
    /\ UNCHANGED life_vars

\* std::unique_lock<mutex_type> l(mtx_) or std::lock_guard<mutex_type>
\* l(mtx_): the thread t gets the mutex
Lock(t) ==
    /\ ops[t].pc = "wait"
    /\ mtx_ = Free
    /\ mtx_' = t
    /\ ops' = [ops EXCEPT ![t].pc = "locked"]
    /\ UNCHANGED <<thread_occupancy_count_, initial_thread_pools_,
                   num_threads_overall, affinity_pu_nums, affinity_masks,
                   is_initialized_, configured>>
    /\ UNCHANGED conc_fixed
    /\ UNCHANGED life_vars

\* add_resource(pu, pool_name, true) leaves by the throw of
\* init_pool_data::add_resource (PU index out of bounds), which comes
\* without l.unlock()
ThrowsInPoolData(st, pu, pool_name) ==
    /\ AllowOversubscription \/ OccupancyCount(st, pu) = 0
    /\ FindPool(st.pools, pool_name) # 0
    /\ pu >= HardwareConcurrency

\* the locked part of the worker's operation o on the partitioner st: what
\* it leaves, what it throws and whether it has called l.unlock()
WorkerOutcome(o, st) ==
    IF o.op = "create_thread_pool"
    THEN LET r == CreateThreadPool(st.pools, o.pool_name, "unspecified")
         IN [st |-> [st EXCEPT !.pools = r.pools], err |-> r.err,
             unlocked |-> r.err # "none"]
    ELSE IF o.op = "add_resource"
    THEN LET r == AddResource(st, o.pu, o.pool_name, TRUE, 1)
         IN [st |-> r.st, err |-> r.err,
             unlocked |-> r.err # "none"
                          /\ ~ThrowsInPoolData(st, o.pu, o.pool_name)]
    ELSE IF o.op = "get_num_threads"
    THEN [st |-> st,
          err |-> IF o.index >= Len(st.pools) THEN "BadParameter" ELSE "none",
          unlocked |-> o.index >= Len(st.pools)]
    ELSE [st |-> st, err |-> WhichScheduler(st.pools, o.pool_name).err,
          unlocked |-> WhichScheduler(st.pools, o.pool_name).err # "none"]

\* the worker runs the locked part of its operation and leaves the scope of
\* the lock
WorkerRuns ==
    /\ ops["worker"].pc = "locked"
    /\ \E r \in {WorkerOutcome(ops["worker"], PartState)} :
       \E l \in {UniqueLockScope(r.unlocked)} :
          /\ initial_thread_pools_' = r.st.pools
          /\ thread_occupancy_count_' = r.st.occ
          /\ num_threads_overall' = r.st.overall
          /\ mtx_' = MutexAfter(mtx_, l)
          /\ ops' = [ops EXCEPT !["worker"].pc = "idle",
                                !["worker"].err = r.err,
                                !["worker"].released = l.released]
    /\ UNCHANGED <<affinity_pu_nums, affinity_masks, is_initialized_,
                   configured>>
    /\ UNCHANGED conc_fixed
    /\ UNCHANGED life_vars

\* get_pool_name(index): the size of the pool vector and the name are read
GetPoolNameReads ==
    /\ ops["worker"].pc = "reading"
    /\ ops' = [ops EXCEPT
                 !["worker"].pc = "idle",
                 !["worker"].err =
                     IF ops["worker"].index >= Len(initial_thread_pools_)
                     THEN "BadParameter" ELSE "none"]
    /\ UNCHANGED <<thread_occupancy_count_, initial_thread_pools_,
                   num_threads_overall, affinity_pu_nums, affinity_masks,
                   is_initialized_, configured, mtx_>>
    /\ UNCHANGED conc_fixed
    /\ UNCHANGED life_vars

\* the main thread enters configure_pools, which calls setup_pools
ConfigurePoolsEnters ==
    /\ ops["caller"].pc = "idle"
    /\ ops' = [ops EXCEPT !["caller"] =
                  [NoOp EXCEPT !.op = "configure_pools",
                               !.stage = "setup_pools", !.pc = "run"]]
    /\ UNCHANGED <<thread_occupancy_count_, initial_thread_pools_,
                   num_threads_overall, affinity_pu_nums, affinity_masks,
                   is_initialized_, configured, mtx_>>
    /\ UNCHANGED conc_fixed
    /\ UNCHANGED life_vars

\* setup_pools, one turn of its loop over the mirror: the PU's occupancy
\* count is read, and a free PU is handed to add_resource; after the last PU
\* setup_pools locks for its checks
SetupPoolsTurns ==
    /\ ops["caller"].pc = "run"
    /\ ops["caller"].stage = "setup_pools"
    /\ LET o == ops["caller"]
       IN ops' = [ops EXCEPT !["caller"] =
                     IF o.k > Len(numa_domains_)
                     THEN [o EXCEPT !.stage = "check", !.pc = "wait"]
                     ELSE IF thread_occupancy_count_[numa_domains_[o.k]] = 0
                     THEN [o EXCEPT !.stage = "add_resource", !.pc = "wait"]
                     ELSE [o EXCEPT !.k = @ + 1]]
    /\ UNCHANGED <<thread_occupancy_count_, initial_thread_pools_,
                   num_threads_overall, affinity_pu_nums, affinity_masks,
                   is_initialized_, configured, mtx_>>
    /\ UNCHANGED conc_fixed
    /\ UNCHANGED life_vars

\* the locked part of the stage of configure_pools the caller o is in, on
\* the partitioner st with the affinity data a: what it leaves, where the
\* caller goes on, and the lock object after its scope
CallerOutcome(o, st, a) ==
    IF o.stage = "add_resource"
    THEN LET r == AddResource(st, numa_domains_[o.k], GetDefaultPoolName,
                              o.first \/ ~AllowDynamicPools, 1)
         IN [st |-> r.st, a |-> a,
             o |-> IF r.err # "none"
                   THEN [o EXCEPT !.pc = "done", !.err = r.err]
                   ELSE [o EXCEPT !.stage = "setup_pools", !.pc = "run",
                                  !.k = @ + 1, !.first = FALSE],
             l |-> UniqueLockScope(r.err # "none")]
    ELSE IF o.stage = "check"
    THEN IF st.pools[1].num_threads_ = 0
         THEN [st |-> st, a |-> a,
               o |-> [o EXCEPT !.pc = "done", !.err = "InvalidStatus"],
               l |-> UniqueLockScope(TRUE)]
         ELSE IF CheckEmptyPools(st.pools)
         THEN [st |-> st, a |-> a,
               o |-> [o EXCEPT !.stage = "print_init_pool_data",
                               !.pc = "wait"],
               l |-> UniqueLockUnlock(Acquired)]
         ELSE [st |-> st, a |-> a,
               o |-> [o EXCEPT !.stage = "setup_schedulers", !.pc = "wait"],
               l |-> UniqueLockScope(FALSE)]
    ELSE IF o.stage = "print_init_pool_data"
    THEN [st |-> st, a |-> a,
          o |-> [o EXCEPT !.pc = "done", !.err = "InvalidStatus"],
          l |-> LockGuardDtor(Acquired)]
    ELSE IF o.stage = "setup_schedulers"
    THEN [st |-> [st EXCEPT !.pools = SetupSchedulers(@, S_static).pools],
          a |-> a,
          o |-> [o EXCEPT !.stage = "reconfigure_affinities", !.pc = "wait"],
          l |-> LockGuardDtor(Acquired)]
    ELSE [st |-> st, a |-> ReconfigureAffinitiesLocked(st.pools),
          o |-> [o EXCEPT !.stage = "is_initialized_", !.pc = "run"],
          l |-> LockGuardDtor(Acquired)]

\* the caller runs the locked part of the stage it is in
CallerRuns ==
    /\ ops["caller"].pc = "locked"
    /\ \E r \in {CallerOutcome(ops["caller"], PartState,
                               [pu_nums |-> affinity_pu_nums,
                                masks |-> affinity_masks])} :
          /\ initial_thread_pools_' = r.st.pools
          /\ thread_occupancy_count_' = r.st.occ
          /\ num_threads_overall' = r.st.overall
          /\ affinity_pu_nums' = r.a.pu_nums
          /\ affinity_masks' = r.a.masks
          /\ mtx_' = MutexAfter(mtx_, r.l)
          /\ ops' = [ops EXCEPT !["caller"] =
                        [r.o EXCEPT !.released = r.l.released]]
    /\ UNCHANGED <<is_initialized_, configured>>
    /\ UNCHANGED conc_fixed
    /\ UNCHANGED life_vars

\* is_initialized_ = true, and configure_pools returns
SetsInitialized ==
    /\ ops["caller"].pc = "run"
    /\ ops["caller"].stage = "is_initialized_"
    /\ is_initialized_' = TRUE
    /\ configured' = TRUE
    /\ ops' = [ops EXCEPT !["caller"].pc = "done"]
    /\ UNCHANGED <<thread_occupancy_count_, initial_thread_pools_,
                   num_threads_overall, affinity_pu_nums, affinity_masks,
                   mtx_>>
    /\ UNCHANGED conc_fixed
    /\ UNCHANGED life_vars

NextConc ==
    \/ \E o \in WorkerOps : WorkerCalls(o)
    \/ \E t \in Threads : Lock(t)
    \/ WorkerRuns
    \/ GetPoolNameReads
    \/ ConfigurePoolsEnters
    \/ SetupPoolsTurns
    \/ CallerRuns
    \/ SetsInitialized

SpecConc == InitConc /\ [][NextConc]_vars

\* Every step that does not start a call is taken when it can be taken, and
\* a thread that waits for the mutex gets it when it is free again and again.
FairConc ==
    /\ \A t \in Threads : SF_vars(Lock(t))
    /\ WF_vars(WorkerRuns)
    /\ WF_vars(GetPoolNameReads)
    /\ WF_vars(SetupPoolsTurns)
    /\ WF_vars(CallerRuns)
    /\ WF_vars(SetsInitialized)

SpecConcFair == SpecConc /\ FairConc

\* the thread t reads or writes the pool vector: inside the locked part of
\* an operation, or inside get_pool_name
AccessesPools(t) == ops[t].pc \in {"locked", "reading"}

\* C32: a thread reads or writes the pool vector only while it holds the
\* partitioner lock, in every public operation, so that no read overlaps a
\* write of another thread.
C32_PoolAccessUnderLock ==
    \A t \in Threads : AccessesPools(t) => mtx_ = t

\* configure_pools has entered setup_pools and has not yet set
\* is_initialized_ (or left by a throw)
Configuring ==
    ops["caller"].op = "configure_pools" /\ ops["caller"].pc # "done"

\* the locked part of an operation of the worker takes effect in this step
WorkerTakesEffect ==
    ops["worker"].pc = "locked" /\ ops'["worker"].pc = "idle"

\* C33: from the start of setup_pools to the point where is_initialized_ is
\* set, no lock-protected operation of another thread takes effect.
C33_ConfigurePoolsAtomic == [][Configuring => ~WorkerTakesEffect]_vars

\* the mutex is held only inside the locked part of an operation
HeldOnlyLocked == \A t \in Threads : mtx_ = t => ops[t].pc = "locked"

\* no locked part has released the mutex more than once
ReleasedOnce == \A t \in Threads : ops[t].released <= 1

\* C40: on every exit path of an operation the lock is released: it is
\* held only inside the locked part of an operation (so it is free whenever
\* no operation is in progress), no locked part releases it twice, and,
\* the threads being scheduled fairly, a thread that waits for the lock
\* gets it.
C40_LockReleasedOnEveryPath ==
    /\ [](HeldOnlyLocked /\ ReleasedOnce)
    /\ \A t \in Threads : (ops[t].pc = "wait") ~> (mtx_ = t)

C40_Witness ==
    /\ ops["caller"].pc = "wait"
    /\ mtx_ = "worker"
    /\ ops["caller"].stage = "print_init_pool_data"
    /\ ops["caller"].released = 1

\* ---------------------------------------- shrink_pool on two threads at once
\* the callbacks counted for one virtual core; further ones are not counted
MaxHanded == 2

\* no shrink_pool call of the thread in progress
NoShrink ==
    [op |-> "none", pc |-> "idle", pu_nums |-> <<>>, next |-> 1,
     result |-> 0, err |-> "none"]

\* assign_pu was called for every virtual core of every pool
AllAssigned(pools) ==
    [i \in DOMAIN pools |->
        [pools[i] EXCEPT !.assigned_pu_nums_ =
            [k \in DOMAIN @ |-> <<@[k][1], @[k][2], TRUE>>]]]

\* The state configure_pools has returned into, with allow_dynamic_pools,
\* once the thread pools have assigned every worker; two threads are about
\* to call shrink_pool("default", cb) with a callback that calls
\* unassign_pu("default", pu_num).
InitShrink ==
    /\ instance_number_counter_ = InstanceCounterInit + 1
    /\ alive = {1}
    /\ mode_ \in {m \in PartitionerModes : "allow_dynamic_pools" \in m}
    /\ os_threads = HardwareConcurrency
    /\ numa_domains_ = FillTopologyVectors(0, PUs)
    /\ first_core_ = 0
    /\ \E create_io \in BOOLEAN, binds \in UserBindings :
       \E u \in {UserSetup(create_io, binds)} :
       \E r1 \in {SetupPools(u.st)} :
       \E r2 \in {SetupSchedulers(r1.st.pools, S_static)} :
       \E a \in {ReconfigureAffinitiesLocked(r2.pools)} :
          /\ u.err = "none"
          /\ r1.err = "none"
          /\ r2.err = "none"
          /\ thread_occupancy_count_ = r1.st.occ
          /\ num_threads_overall = r1.st.overall
          /\ initial_thread_pools_ = AllAssigned(r2.pools)
          /\ affinity_pu_nums = a.pu_nums
          /\ affinity_masks = a.masks
    /\ is_initialized_ = TRUE
    /\ phase = "ready"
    /\ configured = TRUE
    /\ hpx_debug \in BOOLEAN
    /\ mtx_ = Free
    /\ call = NoCall
    /\ assert_failed = "none"
    /\ last_pu_call = NoPuCall
    /\ topo = NoTopology
    /\ mirror = NoMirror
    /\ ops = [t \in Threads |-> NoShrink]
    /\ handed = [v \in VirtCores |-> 0]

\* what no step of the two shrinking threads changes
shrink_fixed == <<mode_, os_threads, numa_domains_, thread_occupancy_count_,
                  num_threads_overall, first_core_, affinity_pu_nums,
                  affinity_masks, is_initialized_, phase, configured,
                  hpx_debug, call, last_pu_call, topo, mirror>>

\* the thread t calls shrink_pool("default", cb) and waits for the mutex
ShrinkEnters(t) ==
    /\ Running
    /\ ops[t].pc = "idle"
    /\ ops' = [ops EXCEPT ![t] = [NoShrink EXCEPT !.op = "shrink_pool",
                                                  !.pc = "wait"]]
    /\ UNCHANGED <<initial_thread_pools_, mtx_, assert_failed, handed>>
    /\ UNCHANGED shrink_fixed
    /\ UNCHANGED life_vars

\* std::unique_lock<mutex_type> l(mtx_) of shrink_pool on the thread t
ShrinkLocks(t) ==
    /\ Running
    /\ ops[t].pc = "wait"
    /\ mtx_ = Free
    /\ mtx_' = t
    /\ ops' = [ops EXCEPT ![t].pc = "scan"]
    /\ UNCHANGED <<initial_thread_pools_, assert_failed, handed>>
    /\ UNCHANGED shrink_fixed
    /\ UNCHANGED life_vars

\* the locked block of shrink_pool on the thread t, and the test of
\* has_non_exclusive_pus after it
ShrinkScans(t) ==
    /\ Running
    /\ ops[t].pc = "scan"
    /\ \E r \in {ShrinkPoolScan(initial_thread_pools_[1], 0, ScanStart)} :
          /\ assert_failed' = r.assert_failed
          /\ IF r.assert_failed # "none"
             THEN UNCHANGED <<mtx_, ops>>
             ELSE /\ mtx_' = ScopeExit(mtx_)
                  /\ ops' = [ops EXCEPT
                               ![t].pc = IF r.has_non_exclusive_pus
                                         THEN "callbacks" ELSE "idle",
                               ![t].err = IF r.has_non_exclusive_pus
                                          THEN "none" ELSE "BadParameter",
                               ![t].pu_nums = r.pu_nums]
    /\ UNCHANGED <<initial_thread_pools_, handed>>
    /\ UNCHANGED shrink_fixed
    /\ UNCHANGED life_vars

\* remove_pu(pu_num) on the thread t for the next collected virtual core:
\* the callback calls unassign_pu("default", pu_num), which does nothing
\* when its try_lock fails
CallbackUnassigns(t) ==
    /\ Running
    /\ ops[t].pc = "callbacks"
    /\ ops[t].next <= Len(ops[t].pu_nums)
    /\ LET virt_core == ops[t].pu_nums[ops[t].next]
           d == initial_thread_pools_[1]
       IN /\ handed' = [handed EXCEPT
                          ![virt_core] = IF @ < MaxHanded THEN @ + 1 ELSE @]
          /\ IF mtx_ # Free
             THEN UNCHANGED <<initial_thread_pools_, assert_failed>>
             ELSE IF hpx_debug /\ ~UnassignPuAsserts(d, virt_core)
             THEN /\ assert_failed' = "unassign_pu"
                  /\ UNCHANGED initial_thread_pools_
             ELSE /\ initial_thread_pools_' =
                         [initial_thread_pools_ EXCEPT
                            ![1] = InitPoolDataUnassignPu(@, virt_core)]
                  /\ UNCHANGED assert_failed
    /\ ops' = [ops EXCEPT ![t].next = @ + 1]
    /\ UNCHANGED mtx_
    /\ UNCHANGED shrink_fixed
    /\ UNCHANGED life_vars

\* return pu_nums_to_remove.size() on the thread t
ShrinkReturns(t) ==
    /\ Running
    /\ ops[t].pc = "callbacks"
    /\ ops[t].next > Len(ops[t].pu_nums)
    /\ ops' = [ops EXCEPT ![t].pc = "idle",
                          ![t].result = Len(ops[t].pu_nums)]
    /\ UNCHANGED <<initial_thread_pools_, mtx_, assert_failed, handed>>
    /\ UNCHANGED shrink_fixed
    /\ UNCHANGED life_vars

\* the pool of the thread brings a worker back: assign_pu("default",
\* virt_core) for a virtual core that is not assigned
WorkerReassigned(virt_core) ==
    /\ Running
    /\ mtx_ = Free
    /\ virt_core < initial_thread_pools_[1].num_threads_
    /\ ~PuEntry(initial_thread_pools_[1], virt_core)[3]
    /\ initial_thread_pools_' =
           [initial_thread_pools_ EXCEPT
              ![1] = InitPoolDataAssignPu(@, virt_core)]
    /\ handed' = [handed EXCEPT ![virt_core] = 0]
    /\ UNCHANGED <<mtx_, assert_failed, ops>>
    /\ UNCHANGED shrink_fixed
    /\ UNCHANGED life_vars

NextShrink ==
    \/ \E t \in Threads : ShrinkEnters(t)
    \/ \E t \in Threads : ShrinkLocks(t)
    \/ \E t \in Threads : ShrinkScans(t)
    \/ \E t \in Threads : CallbackUnassigns(t)
    \/ \E t \in Threads : ShrinkReturns(t)
    \/ \E virt_core \in VirtCores : WorkerReassigned(virt_core)

SpecShrink == InitShrink /\ [][NextShrink]_vars

\* C39: with two threads in shrink_pool on the same pool, their callbacks
\* calling unassign_pu for the virtual core they receive, no virtual core
\* is handed to a callback twice while it was assigned once, and the
\* assertion of unassign_pu fails in no interleaving.
C39_HandedOncePerAssignment ==
    /\ \A v \in VirtCores : handed[v] <= 1
    /\ assert_failed # "unassign_pu"

====
